---- MODULE Spec2Model ----
(***************************************************************************)
(* Position lifecycle of the crypto trading bot: the in-memory Ledger      *)
(* (bot/trade_executor.py open_trades), the durable Store                  *)
(* (bot/position_storage.py logs/active_positions.json), the staged-exit   *)
(* pass check_and_close_trades, entry, signal reversal, the exchange       *)
(* reconciliation (bot/sync.py), the legacy-record migration              *)
(* (bot/position_migration.py) and the Safety Gate (bot/safety.py).        *)
(*                                                                         *)
(* Spec is the polling loop of scripts/run_bot.py in one process.          *)
(* SpecCallers has enter_trade and reset_emergency_stop called by any      *)
(* caller, on two symbols.  SpecRestarts is the polling loop over several  *)
(* process lifetimes.                                                      *)
(*                                                                         *)
(* Units.  Prices, ATR and the configured exit fractions are integers in   *)
(* hundredths (10000 is the price 100.00, 25 is the fraction 0.25, and     *)
(* also the price 0.25).  Sizes are integers in units of 0.0001 contract,  *)
(* the precision round(x, 4) keeps.  round(x, 6) of a price is exact on    *)
(* this grid.  Wall-clock time is not modelled: a test on time.time() is   *)
(* an input of the action that makes it.                                   *)
(***************************************************************************)
EXTENDS Integers, Sequences, FiniteSets, TLC

VARIABLES
    open_trades,      \* trade_executor.open_trades: symbol -> record, or NoTrade
    trade_order,      \* the key order of the open_trades dict (insertion order)
    positions_file,   \* PositionStorage's JSON file: symbol -> record, or NoTrade
    profit_taking,    \* config['profit_taking']['profit_levels'], or the empty dict
    PAPER_TRADING,    \* config.PAPER_TRADING, fixed when the process starts
    TRADING_SYMBOLS,  \* config.TRADING_SYMBOLS, fixed when the process starts
    close_accepted,   \* symbols whose Ledger record had a full-close order accepted
    lastOrders,       \* the exit/entry orders the last step issued, in order
    lastPrice,        \* the ticker price the last pass fetched, per symbol
    raised,           \* the last step ended by an exception reaching its caller
    emergency_stop,   \* safety_manager.emergency_stop
    max_open_trades,  \* config['max_open_trades'], fixed when the process starts
    lastEntry,        \* the last step's call of enter_trade, or NoEntry
    lastSync,         \* the last step's fetch of the open positions, or NoSync
    lastCrash,        \* the Store write the last step's crash cut short, or NoCrash
    lastReversal,     \* the price at which the last step approved a reversal, or NoReversal
    lastSizing        \* the last step's call of get_stop_and_size on its own, or NoSizing

vars == <<open_trades, trade_order, positions_file, profit_taking,
          PAPER_TRADING, TRADING_SYMBOLS, close_accepted, lastOrders,
          lastPrice, raised, emergency_stop, max_open_trades, lastEntry,
          lastSync, lastCrash, lastReversal, lastSizing>>

-----------------------------------------------------------------------------
(* Bounds of the model.                                                    *)

\* Ticker prices are 10000 + k * PriceStep for k in -PriceSpan .. PriceSpan.
PriceSpan == 4

-----------------------------------------------------------------------------
(* Values.                                                                 *)

None == -1

Symbols == {"SOL-USDT-SWAP", "LTC-USDT-SWAP"}

\* A scan of the levels from the far target to the near one.
ReversedLevelOrder == <<"4R", "3R", "2R", "1R">>

LevelOrder == <<"1R", "2R", "3R", "4R">>

LevelSet == {"1R", "2R", "3R", "4R"}

EmptyDict == [k \in {} |-> 0]

NoTrade == [absent |-> TRUE]

NoTaken == [l \in LevelSet |-> FALSE]

\* The ATR that calculate_atr yields from the candles, in hundredths.
CandleATR == 100

\* The ticker price at entry: 100.00.
EntryPrice == 100 * 100

\* The grid of ticker prices: one initial risk distance, 2 x ATR.
PriceStep == 2 * CandleATR

\* A price half again above the entry, far beyond the four targets.
FarPrice == 150 * 100

Prices ==
    {EntryPrice + k * PriceStep : k \in (0 - PriceSpan) .. PriceSpan}
        \cup {FarPrice}

Directions == {"long", "short"}

Abs(x) == IF x < 0 THEN 0 - x ELSE x

Min(a, b) == IF a < b THEN a ELSE b

Max(a, b) == IF a > b THEN a ELSE b

\* The element of a one-element set.  Only({e(v) : v \in {x}}) is e of the
\* value of x, with x evaluated once.
Only(S) == CHOOSE y \in S : TRUE

\* Python's round(): the nearest integer of num / den, ties to the even one.
RoundHalfEven(num, den) ==
    LET q == num \div den
        r == num % den
    IN  IF 2 * r > den THEN q + 1
        ELSE IF 2 * r = den THEN q + (q % 2)
        ELSE q

-----------------------------------------------------------------------------
(* bot/risk.py                                                             *)

\* The four targets, entry +/- n * |entry - stop|; round(x, precision) is
\* exact on the hundredths grid.
RMultiple == [l \in LevelSet |->
    IF l = "1R" THEN 1 ELSE IF l = "2R" THEN 2 ELSE IF l = "3R" THEN 3 ELSE 4]

\* A variant that measures the targets upward for either direction.
calculate_profit_levels_upward(entry_price, stop_loss, direction) ==
    [l \in LevelSet |-> entry_price + RMultiple[l] * Abs(entry_price - stop_loss)]

calculate_profit_levels(entry_price, stop_loss, direction) ==
    LET risk == Abs(entry_price - stop_loss)
        n(l) == RMultiple[l]
    IN  IF direction = "long"
        THEN [l \in LevelSet |-> entry_price + n(l) * risk]
        ELSE [l \in LevelSet |-> entry_price - n(l) * risk]

calculate_trailing_stop(current_price, high_water_mark, atr, direction) ==
    LET trailing_distance == atr * 2
    IN  IF direction = "long"
        THEN high_water_mark - trailing_distance
        ELSE high_water_mark + trailing_distance

\* config.get('atr', {}).get('stop_loss_multiplier', 2): the default.
sl_multiplier == 2

\* config.get('margin_per_position_pct', 0.10), in percent: the default.
margin_per_position_pct == 10

\* leverage_estimates.get(symbol, 10): every listed symbol is 10 as well.
estimated_leverage == 10

\* contract_multipliers: 1 contract = 1.0 unit for both symbols of the model.
contract_multiplier == 1

\* okx_position_limits of both symbols of the model, in contracts.
max_contracts == 50000

\* The flagship symbol, with its own allocation (5%, line 162), contract
\* multiplier (0.01, line 209) and position limit (100,000, line 236).
Flagship == "BTC-USDT-SWAP"

btc_margin_per_position_pct == 5

\* The flagship's allocation for every symbol.
AllocationPctOfFlagship(symbol) == btc_margin_per_position_pct

AllocationPct(symbol) ==
    IF symbol = Flagship THEN btc_margin_per_position_pct
    ELSE margin_per_position_pct

\* The contract multiplier in hundredths of a unit.
ContractMultiplierPct(symbol) ==
    IF symbol = Flagship THEN 1 ELSE 100 * contract_multiplier

MaxContracts(symbol) ==
    IF symbol = Flagship THEN 100000 ELSE max_contracts

\* a * 100^k / d rounded half to even, by long division so that no
\* intermediate value leaves the 32-bit range.
RECURSIVE Quotient(_, _, _)
Quotient(a, d, k) ==
    IF k = 0 THEN RoundHalfEven(a, d)
    ELSE (a \div d) * (IF k = 1 THEN 100 ELSE IF k = 2 THEN 10000
                       ELSE 1000000)
         + Quotient((a % d) * 100, d, k - 1)

\* get_stop_and_size on the path with candle data.  atr_calc is what
\* calculate_atr returned (None when it failed), recent_range the high-low
\* range of the last five bars, available_margin the margin figure in whole
\* dollars.  The result's size is in 0.0001 contract.
get_stop_and_size(symbol, entry_price, direction, atr_calc, recent_range, margin_info, equity) ==
    LET \* lines 132-150: the margin figure, or the account equity when
        \* get_account_margin_info answered None
        available_margin == IF margin_info # None THEN margin_info ELSE equity
        atr0 == IF atr_calc = None \/ atr_calc = 0
                THEN recent_range \div 5 ELSE atr_calc
        min_atr == (entry_price * 5) \div 1000
        max_atr == (entry_price * 5) \div 100
        atr == IF atr0 < min_atr THEN min_atr
               ELSE IF atr0 > max_atr THEN max_atr ELSE atr0
        \* lines 157-170 and 221-225: target margin times leverage is the
        \* notional, in hundredths of a dollar here
        notional == available_margin * AllocationPct(symbol)
                        * estimated_leverage
        \* size = notional / (entry_price * contract_multiplier)
        size0 == Quotient(notional,
                          entry_price * ContractMultiplierPct(symbol), 3)
        size1 == IF size0 > MaxContracts(symbol) * 10000
                 THEN MaxContracts(symbol) * 10000 ELSE size0
        sl_distance == atr * sl_multiplier
        min_price_diff == (entry_price * 5) \div 1000
        max_price_diff == (entry_price * 8) \div 100
        price_diff == IF sl_distance < min_price_diff THEN min_price_diff
                      ELSE IF sl_distance > max_price_diff THEN max_price_diff
                      ELSE sl_distance
        stop_loss == IF direction = "long" THEN entry_price - price_diff
                     ELSE entry_price + price_diff
        \* the 25% margin clamp: size * entry / leverage against margin / 4
        max_size == Quotient(available_margin * 25 * estimated_leverage,
                             entry_price, 2)
        \* lines 311-325: the flagship is exempt from the clamp
        size2 == IF symbol # Flagship /\ size1 > max_size THEN max_size
                 ELSE size1
    IN  IF atr <= 0
        THEN [size |-> 0, atr |-> 0, stop_loss |-> entry_price]
        ELSE [size |-> IF size2 <= 0 THEN 0 ELSE size2,
              atr |-> atr, stop_loss |-> stop_loss]

-----------------------------------------------------------------------------
(* bot/safety.py                                                           *)

\* Equity is in whole dollars, the two fractions in hundredths.  An equity
\* of None stands for a get_account_equity call that raised.
starting_equity == 10000

equity_kill_switch_pct == 50

daily_loss_limit_pct == 5

\* A check that trips only strictly beyond its thresholds.
check_equity_strictly(current_equity) ==
    IF current_equity = None THEN TRUE
    ELSE /\ current_equity * 100 >= starting_equity * equity_kill_switch_pct
         /\ (starting_equity - current_equity) * 100
                <= starting_equity * daily_loss_limit_pct

\* A check that treats a failed equity fetch as a breach.
check_equity_fail_closed(current_equity) ==
    /\ current_equity # None
    /\ current_equity * 100 > starting_equity * equity_kill_switch_pct
    /\ (starting_equity - current_equity) * 100
           < starting_equity * daily_loss_limit_pct

\* check_equity_kill_switch (lines 27-55): FALSE when the equity is at or
\* below the kill-switch threshold or the loss at or above the daily limit;
\* the caller's emergency_stop is set exactly when the answer is FALSE.  An
\* exception in the fetch is caught and answered TRUE (lines 53-55).
check_equity_kill_switch(current_equity) ==
    IF current_equity = None THEN TRUE
    ELSE /\ current_equity * 100 > starting_equity * equity_kill_switch_pct
         /\ (starting_equity - current_equity) * 100
                < starting_equity * daily_loss_limit_pct

\* A limit that admits one record more than the configured count.
check_position_limits_off_by_one(count) == count <= max_open_trades

\* check_position_limits (lines 57-62), on len(open_trades).
check_position_limits(count) == count < max_open_trades

\* A gate that does not look at the emergency stop flag.
should_allow_trading_ignoring_stop(due, current_equity) ==
    IF due /\ ~check_equity_kill_switch(current_equity)
    THEN [allow |-> FALSE, emergency_stop |-> TRUE]
    ELSE [allow |-> check_position_limits(Len(trade_order)),
          emergency_stop |-> emergency_stop]

\* should_allow_trading (lines 139-158): the verdict and the flag it
\* leaves.  due is the test time.time() - last_equity_check > 300.
should_allow_trading(due, current_equity) ==
    IF emergency_stop
    THEN [allow |-> FALSE, emergency_stop |-> TRUE]
    ELSE IF due /\ ~check_equity_kill_switch(current_equity)
    THEN [allow |-> FALSE, emergency_stop |-> TRUE]
    ELSE [allow |-> check_position_limits(Len(trade_order)),
          emergency_stop |-> emergency_stop]

\* validate_trade_size with margin info available: the estimated margin
\* (notional / assumed leverage) may not exceed 25% of the available margin, and the
\* notional may not be below 10 dollars.  size in 0.0001 contract, price in
\* hundredths, margin in dollars: size * price is in millionths of a dollar.
\* Without margin info (None) the trade is allowed (lines 84-86).
ValidationLeverage(symbol) ==
    IF symbol \in {Flagship, "ETH-USDT-SWAP"} THEN 20
    ELSE IF symbol = "SOL-USDT-SWAP" THEN 15
    ELSE 10

validate_trade_size(symbol, trade_size, current_price, available_margin) ==
    LET trade_value == (trade_size \div 100) * (current_price \div 100)
        \* trade_value is in hundredths of a dollar
    IN  \/ available_margin = None
        \/ /\ (trade_value \div ValidationLeverage(symbol)) * 4
                  <= available_margin * 100
           /\ trade_value >= 10 * 100

\* bot/exchange_okx.py, get_valid_lot_size: the lot size of each instrument,
\* in 0.0001 contract, and the size rounded to the nearest whole number of
\* lots (Python's round: half to even), at least one lot.
LotSize(symbol) ==
    IF symbol \in {Flagship, "ETH-USDT-SWAP"} THEN 100
    ELSE IF symbol \in {"LTC-USDT-SWAP", "ADA-USDT-SWAP"} THEN 10000
    ELSE 1000

get_valid_lot_size(symbol, size) ==
    LET lot_size == LotSize(symbol)
        lots == RoundHalfEven(size, lot_size)
        rounded_size == lots * lot_size
    IN  IF rounded_size < lot_size THEN lot_size ELSE rounded_size

\* place_order, lines 263-291: the sz of the order sent to the exchange is
\* the lot-adjusted size, whatever size the caller asked for.
SubmittedSize(order) == get_valid_lot_size(order.sym, order.size)

-----------------------------------------------------------------------------
(* bot/trade_executor.py: the staged-exit pass                             *)

\* dict.get with a default, for the keys a record may lack.
GetHWM(trade) ==
    IF trade.high_water_mark = None THEN trade.entry_price
    ELSE trade.high_water_mark

GetATR(trade) == IF trade.atr = None THEN 0 ELSE trade.atr

Taken(trade, level) ==
    IF level \in DOMAIN trade.profits_taken
    THEN trade.profits_taken[level] ELSE FALSE

\* A mark that follows the price both ways.
FollowPrice(trade, current_price) ==
    [trade EXCEPT !.high_water_mark = current_price]

\* Lines 211-215: the high-water mark follows the price in the trade's favour.
UpdateHighWaterMark(trade, current_price) ==
    IF trade.direction = "long" /\ current_price > GetHWM(trade)
    THEN [trade EXCEPT !.high_water_mark = current_price]
    ELSE IF trade.direction = "short" /\ current_price < GetHWM(trade)
    THEN [trade EXCEPT !.high_water_mark = current_price]
    ELSE trade

\* Lines 230-238: the level is unrealized and the price has reached its target.
LevelHit(trade, level, current_price) ==
    /\ level \in DOMAIN trade.profit_levels
    /\ ~Taken(trade, level)
    /\ \/ trade.direction = "long"
          /\ current_price >= trade.profit_levels[level]
       \/ trade.direction = "short"
          /\ current_price <= trade.profit_levels[level]

\* A scan that goes on to the next level after a hit.
NoBreakAfterHit == FALSE

\* Line 279: the break that ends the scan of the levels after a hit.
BreakAfterHit == TRUE

\* Lines 340-396 as seen by the caller: a paper trade always succeeds, a
\* live one succeeds when place_order answers code "0".
take_partial_profit(trade, order_ok) ==
    IF trade.paper_trade THEN TRUE ELSE order_ok

\* Lines 260-273: the stop ratchet after a realized level.  profit_levels
\* was rebound on line 243 to config['profit_taking']['profit_levels'], so
\* the 2R and 3R branches read the configured exit fraction of the level
\* below, and raise KeyError when the configuration has no such key.
RatchetRaises(level, config_levels) ==
    \/ level = "2R" /\ "1R" \notin DOMAIN config_levels
    \/ level = "3R" /\ "2R" \notin DOMAIN config_levels

\* A ratchet that leaves the stop where it was on 1R.
RatchetStopSkipsBreakeven(trade, level, config_levels) ==
    IF level = "1R" THEN trade
    ELSE IF level = "2R" THEN [trade EXCEPT !.stop_loss = config_levels["1R"]]
    ELSE IF level = "3R" THEN [trade EXCEPT !.stop_loss = config_levels["2R"]]
    ELSE [trade EXCEPT !.trailing_stop_active = TRUE]

\* A ratchet that switches to trailing mode one level early.
RatchetStopTrailsEarly(trade, level, config_levels) ==
    IF level = "1R" THEN [trade EXCEPT !.stop_loss = trade.entry_price]
    ELSE IF level = "2R" THEN [trade EXCEPT !.stop_loss = config_levels["1R"]]
    ELSE [trade EXCEPT !.trailing_stop_active = TRUE]

RatchetStop(trade, level, config_levels) ==
    IF level = "1R" THEN [trade EXCEPT !.stop_loss = trade.entry_price]
    ELSE IF level = "2R" THEN [trade EXCEPT !.stop_loss = config_levels["1R"]]
    ELSE IF level = "3R" THEN [trade EXCEPT !.stop_loss = config_levels["2R"]]
    ELSE [trade EXCEPT !.trailing_stop_active = TRUE]

\* A level that is marked, and its stop ratcheted, whatever the order's
\* answer.
ProcessLevelIgnoringFailure(st, symbol, level, current_price, order_ok, config_levels) ==
    LET trade == st.trade
        profit_pct == IF level \in DOMAIN config_levels
                      THEN config_levels[level] ELSE 25
        exit_size == RoundHalfEven(trade.size * profit_pct, 100)
        order == [sym |-> symbol, kind |-> "partial", level |-> level,
                  size |-> exit_size,
                  ok |-> take_partial_profit(trade, order_ok),
                  live |-> ~trade.paper_trade]
        taken == [l \in DOMAIN trade.profits_taken \cup {level} |->
                     IF l = level THEN TRUE ELSE trade.profits_taken[l]]
        marked == [trade EXCEPT !.size = trade.size - exit_size,
                                !.profits_taken = taken]
    IN  IF RatchetRaises(level, config_levels)
        THEN [st EXCEPT !.trade = marked, !.orders = Append(@, order),
                        !.raised = TRUE]
        ELSE [st EXCEPT !.trade = RatchetStop(marked, level, config_levels),
                        !.saved = RatchetStop(marked, level, config_levels),
                        !.orders = Append(@, order)]

\* Lines 240-279 for one level that was hit.  st is the evaluation of one
\* symbol so far: the record, the record last written to the Store (or
\* NoTrade), the orders issued, and whether an exception was raised.
ProcessLevel(st, symbol, level, current_price, order_ok, config_levels) ==
    LET trade == st.trade
        profit_pct == IF level \in DOMAIN config_levels
                      THEN config_levels[level] ELSE 25
        current_size == trade.size
        exit_size == RoundHalfEven(current_size * profit_pct, 100)
        remaining_size == current_size - exit_size
        ok == take_partial_profit(trade, order_ok)
        order == [sym |-> symbol, kind |-> "partial", level |-> level,
                  size |-> exit_size, ok |-> ok,
                  live |-> ~trade.paper_trade]
        taken == [l \in DOMAIN trade.profits_taken \cup {level} |->
                     IF l = level THEN TRUE ELSE trade.profits_taken[l]]
        marked == [trade EXCEPT !.size = remaining_size,
                                !.profits_taken = taken]
    IN  IF ~ok
        THEN [st EXCEPT !.orders = Append(@, order)]
        ELSE IF RatchetRaises(level, config_levels)
        THEN [st EXCEPT !.trade = marked, !.orders = Append(@, order),
                        !.raised = TRUE]
        ELSE [st EXCEPT !.trade = RatchetStop(marked, level, config_levels),
                        !.saved = RatchetStop(marked, level, config_levels),
                        !.orders = Append(@, order)]

\* Lines 229-279: the scan of the levels in the order 1R, 2R, 3R, 4R.
RECURSIVE LevelLoop(_, _, _, _, _, _)
LevelLoop(st, symbol, i, current_price, order_ok, config_levels) ==
    IF i > Len(LevelOrder) \/ st.raised THEN st
    ELSE IF LevelHit(st.trade, LevelOrder[i], current_price)
    THEN IF BreakAfterHit
         THEN ProcessLevel(st, symbol, LevelOrder[i], current_price,
                           order_ok, config_levels)
         ELSE Only({LevelLoop(st1, symbol, i + 1, current_price, order_ok,
                              config_levels) :
                    st1 \in {ProcessLevel(st, symbol, LevelOrder[i],
                                          current_price, order_ok,
                                          config_levels)}})
    ELSE LevelLoop(st, symbol, i + 1, current_price, order_ok, config_levels)

\* A check that lets every candidate through.
AnyTrailingStopValid(trade, trailing_sl) == TRUE

\* Lines 289-302: the sanity band of a trailing stop relative to the entry.
ValidTrailingStop(trade, trailing_sl) ==
    IF trade.direction = "long"
    THEN /\ trade.entry_price * 50 <= trailing_sl * 100
         /\ trailing_sl * 100 <= trade.entry_price * 95
    ELSE /\ trade.entry_price * 105 <= trailing_sl * 100
         /\ trailing_sl * 100 <= trade.entry_price * 200

\* Lines 281-313: the trailing stop of the remainder after 4R.
UpdateTrailingStop(trade, current_price) ==
    IF trade.trailing_stop_active /\ GetATR(trade) > 0
    THEN LET trailing_sl == calculate_trailing_stop(current_price,
                                GetHWM(trade), GetATR(trade), trade.direction)
         IN  IF ValidTrailingStop(trade, trailing_sl)
                /\ \/ trade.direction = "long"
                      /\ trailing_sl > trade.stop_loss
                   \/ trade.direction = "short"
                      /\ trailing_sl < trade.stop_loss
             THEN [trade EXCEPT !.stop_loss = trailing_sl]
             ELSE trade
    ELSE trade

\* Lines 315-322: the price is at or through the stop.
StopLossHit(trade, current_price) ==
    \/ trade.direction = "long" /\ current_price <= trade.stop_loss
    \/ trade.direction = "short" /\ current_price >= trade.stop_loss

\* Lines 398-449: close_trade submits a reduce-only order for the whole
\* remaining size (a paper trade only logs) and changes no record.
close_trade(trade, symbol, exit_reason, exit_price, order_ok) ==
    [sym |-> symbol, kind |-> "close", level |-> exit_reason,
     size |-> trade.size,
     ok |-> IF trade.paper_trade THEN TRUE ELSE order_ok,
     live |-> ~trade.paper_trade]

\* Lines 281-331 for one symbol, after the scan of the levels.
TrailAndStop(st1, symbol, current_price, close_ok) ==
    IF st1.raised THEN st1
    ELSE Only({IF StopLossHit(trailed, current_price)
               THEN [st1 EXCEPT !.trade = trailed, !.close = TRUE,
                        !.orders = Append(@, close_trade(trailed, symbol,
                                    "STOP_LOSS", current_price, close_ok))]
               ELSE [st1 EXCEPT !.trade = trailed] :
               trailed \in {UpdateTrailingStop(st1.trade, current_price)}})

\* A pass that evaluates a record whether it has a stop or not.
NeverMissingStop(trade) == FALSE

\* Lines 206-209: a record whose stop_loss is None is skipped.
MissingStop(trade) == trade.stop_loss = None

\* Lines 197-331: the body of the loop for one symbol.
EvalSymbol(trade, symbol, current_price, partial_ok, close_ok, config_levels) ==
    LET st0 == [trade |-> trade, saved |-> NoTrade, orders |-> << >>,
                raised |-> FALSE, close |-> FALSE]
    IN  IF current_price = None \/ MissingStop(trade) THEN st0
        ELSE Only({TrailAndStop(st1, symbol, current_price, close_ok) :
                   st1 \in {LevelLoop(
                       [st0 EXCEPT !.trade =
                            UpdateHighWaterMark(trade, current_price)],
                       symbol, 1, current_price, partial_ok,
                       config_levels)}})

\* Lines 196-338: what the evaluation of one symbol adds to the pass.
Merge(ps, symbol, ev, price) ==
    [ledger |-> [ps.ledger EXCEPT ![symbol] = ev.trade],
     store |-> IF ev.saved = NoTrade THEN ps.store
               ELSE [ps.store EXCEPT ![symbol] = ev.saved],
     to_close |-> IF ev.close THEN Append(ps.to_close, symbol)
                  ELSE ps.to_close,
     orders |-> ps.orders \o ev.orders,
     fetched |-> [ps.fetched EXCEPT ![symbol] = price],
     raised |-> ev.raised]

\* Lines 196-331: the loop over open_trades.items(), in the dict's key order.
\* ps is the pass so far; an exception ends the loop at the symbol that raised.
RECURSIVE PassLoop(_, _, _, _, _, _)
PassLoop(ps, i, prices, partial_ok, close_ok, config_levels) ==
    IF i > Len(trade_order) \/ ps.raised THEN ps
    ELSE Only({PassLoop(next, i + 1, prices, partial_ok, close_ok,
                        config_levels) :
               next \in {Merge(ps, trade_order[i], ev,
                               prices[trade_order[i]]) :
                   ev \in {EvalSymbol(ps.ledger[trade_order[i]],
                               trade_order[i], prices[trade_order[i]],
                               partial_ok[trade_order[i]],
                               close_ok[trade_order[i]], config_levels)}}})

Range(seq) == {seq[i] : i \in 1..Len(seq)}

RECURSIVE Without(_, _)
Without(seq, S) ==
    IF seq = << >> THEN << >>
    ELSE IF Head(seq) \in S THEN Without(Tail(seq), S)
    ELSE <<Head(seq)>> \o Without(Tail(seq), S)

\* The symbols whose full-close order the exchange accepted in these orders.
AcceptedCloses(orders) ==
    {orders[i].sym : i \in {j \in 1..Len(orders) :
        orders[j].kind = "close" /\ orders[j].ok /\ orders[j].live}}

NoPrices == [s \in Symbols |-> None]

\* A step that is not an enter_trade call, a step that is not a sync.
NoEntry == [called |-> FALSE]

NoSync == [synced |-> FALSE]

\* A step in which the process did not die.
NoCrash == [crashed |-> FALSE]

\* The log of a step that approved no reversal.
NoReversal == [approved |-> FALSE]

\* The log of a step that was no sizing on its own.
NoSizing == [sized |-> FALSE]

\* check_and_close_trades, run from run_strategy_loop inside try/except: an
\* exception raised in the loop skips the removal of to_close (lines 333-338).
check_and_close_trades(prices, partial_ok, close_ok) ==
    \E ps \in {PassLoop([ledger |-> open_trades, store |-> positions_file,
                          to_close |-> << >>, orders |-> << >>,
                          fetched |-> NoPrices, raised |-> FALSE],
                         1, prices, partial_ok, close_ok, profit_taking)} :
        \E gone \in {IF ps.raised THEN {} ELSE Range(ps.to_close)} :
            /\ open_trades' = [s \in Symbols |->
                                  IF s \in gone THEN NoTrade ELSE ps.ledger[s]]
            /\ positions_file' = [s \in Symbols |->
                                  IF s \in gone THEN NoTrade ELSE ps.store[s]]
            /\ trade_order' = Without(trade_order, gone)
            /\ close_accepted' =
                   (close_accepted \cup AcceptedCloses(ps.orders)) \ gone
            /\ lastOrders' = ps.orders
            /\ lastPrice' = ps.fetched
            /\ raised' = ps.raised
            /\ lastEntry' = NoEntry
            /\ lastSync' = NoSync
            /\ lastCrash' = NoCrash
            /\ lastReversal' = NoReversal
            /\ lastSizing' = NoSizing
            /\ UNCHANGED <<profit_taking, PAPER_TRADING, TRADING_SYMBOLS,
                           max_open_trades, emergency_stop>>

PriceInputs == Prices \cup {None}

\* The symbols for which the pass places a partial-exit order, and those
\* for which it places a full-close order, on the exchange at these prices.
AsksPartial(prices) ==
    {s \in Range(trade_order) :
        /\ ~open_trades[s].paper_trade
        /\ prices[s] # None
        /\ open_trades[s].stop_loss # None
        /\ \E l \in LevelSet : LevelHit(open_trades[s], l, prices[s])}

AsksClose(prices) ==
    {s \in Range(trade_order) :
        /\ ~open_trades[s].paper_trade
        /\ \E partial_ok \in BOOLEAN :
               EvalSymbol(open_trades[s], s, prices[s], partial_ok, TRUE,
                          profit_taking).close}

\* The answer to an order that is never placed plays no part.
Answers(asked) ==
    {[s \in Range(trade_order) |-> IF s \in asked THEN a[s] ELSE TRUE] :
        a \in [asked -> BOOLEAN]}

\* The pass fetches a ticker and places orders only for the symbols it holds.
CheckAndCloseTrades ==
    \E prices \in [Range(trade_order) -> PriceInputs] :
        \E partial_ok \in Answers(AsksPartial(prices)),
           close_ok \in Answers(AsksClose(prices)) :
            check_and_close_trades(prices, partial_ok, close_ok)

-----------------------------------------------------------------------------
(* bot/trade_executor.py: entry and signal reversal                        *)

SignalTypes == {"traditional", "momentum"}

\* Lines 157-177: the record of a new position.
position_data(direction, current_price, sizing, signal_type, paper) ==
    LET profit_levels == calculate_profit_levels(current_price,
                             sizing.stop_loss, direction)
    IN  [direction |-> direction,
         entry_price |-> current_price,
         size |-> sizing.size,
         original_size |-> sizing.size,
         stop_loss |-> sizing.stop_loss,
         take_profit |-> profit_levels["2R"],
         profit_levels |-> profit_levels,
         profits_taken |-> NoTaken,
         high_water_mark |-> current_price,
         trailing_stop_active |-> FALSE,
         atr |-> sizing.atr,
         signal_type |-> signal_type,
         paper_trade |-> paper,
         synced_from_exchange |-> FALSE]

\* The margin figure the sizer and the per-trade validation read, in dollars.
AvailableMargin == 500

\* The size of a position as the exchange reports it: 5 contracts.
ReportedSize == 5 * 10000

Unchanged == UNCHANGED <<open_trades, trade_order, positions_file,
                         close_accepted>>

\* What a step other than the exit pass leaves in the log of the last step.
Log(orders, exc) ==
    /\ lastOrders' = orders
    /\ lastPrice' = NoPrices
    /\ raised' = exc
    /\ UNCHANGED <<profit_taking, PAPER_TRADING, TRADING_SYMBOLS,
                   max_open_trades>>

\* The same for a step that is neither an entry nor a sync.
Note(orders, exc) ==
    /\ Log(orders, exc)
    /\ lastEntry' = NoEntry
    /\ lastSync' = NoSync
    /\ lastCrash' = NoCrash
    /\ lastReversal' = NoReversal
    /\ lastSizing' = NoSizing
    /\ UNCHANGED emergency_stop

\* The margin figure the sizer falls back to, get_account_equity's answer,
\* in whole dollars.
FallbackEquity == 600

\* An answer of the opening order that counts as accepted, whatever it is.
AnyAnswerAccepted(response) == TRUE

\* Lines 139-150: the opening order succeeded when its answer has code "0".
OrderAccepted(response) == response = "0"

\* bot/exchange_okx.py, get_account_equity (lines 60-76): in paper trading
\* the configured starting equity, otherwise the exchange's answer.
get_account_equity(answer) ==
    IF PAPER_TRADING THEN starting_equity ELSE answer

\* get_account_margin_info (lines 78-118): in paper trading a simulated
\* dict with availBal = 80% of the starting equity and the keys totalEq,
\* availBal, ordFrozen and marginRatio; otherwise None or the exchange's
\* figures, among them the key used_margin.
get_account_margin_info(answer) ==
    IF PAPER_TRADING
    THEN [answered |-> TRUE, availBal |-> (starting_equity * 80) \div 100,
          has_used_margin |-> FALSE]
    ELSE [answered |-> answer # None, availBal |-> answer,
          has_used_margin |-> TRUE]

\* bot/risk.py, lines 132-150, as the sizer reads the margin: availBal of
\* a truthy margin_info, else None (the fallback to get_account_equity);
\* margin_info['used_margin'] on line 140 raises KeyError for a dict
\* without that key, and so does a raising get_account_equity.
SizerMargin(margin_info) ==
    IF margin_info.answered THEN margin_info.availBal ELSE None

SizerRaises(margin_info, fallback_equity) ==
    IF margin_info.answered THEN ~margin_info.has_used_margin
    ELSE fallback_equity = None

\* enter_trade (lines 93-190).  env holds what the environment answers
\* during the call: due and equity for the Safety Gate, current_price the
\* ticker (None when unavailable), candles whether candle data came back,
\* margin_info the available margin the sizer fetched (None when
\* get_account_margin_info answered None), fallback_equity the equity the
\* sizer then fetches (None when that call raised), validate_margin the
\* margin validate_trade_size fetched, response the code of the opening
\* order's answer ("raises" when place_order raised).
enter_trade(symbol, direction, signal_type, env) ==
    LET gate == should_allow_trading(env.due,
                                     get_account_equity(env.equity))
        margin_info == get_account_margin_info(env.margin_info)
        fallback_equity == get_account_equity(env.fallback_equity)
        validate_margin == get_account_margin_info(env.validate_margin)
        sizing == get_stop_and_size(symbol, env.current_price, direction,
                      CandleATR, 0, SizerMargin(margin_info),
                      fallback_equity)
        order == [sym |-> symbol, kind |-> "open", level |-> "ENTRY",
                  size |-> sizing.size, code |-> env.response,
                  ok |-> OrderAccepted(env.response), live |-> TRUE]
        record == position_data(direction, env.current_price, sizing,
                                signal_type, PAPER_TRADING)
    IN  /\ emergency_stop' = gate.emergency_stop
        /\ lastEntry' = [called |-> TRUE, symbol |-> symbol, due |-> env.due,
                         equity |-> get_account_equity(env.equity),
                         stopped |-> emergency_stop,
                         count |-> Len(trade_order), allow |-> gate.allow,
                         sized |-> /\ gate.allow
                                   /\ env.current_price # None
                                   /\ env.candles,
                         margin_info |-> SizerMargin(margin_info),
                         fallback_equity |-> fallback_equity]
        /\ lastSync' = NoSync
        /\ lastCrash' = NoCrash
        /\ lastReversal' = NoReversal
        /\ lastSizing' = NoSizing
        /\ IF \/ ~gate.allow
              \/ env.current_price = None
              \/ ~env.candles
           THEN Unchanged /\ Log(<< >>, FALSE)
           ELSE IF SizerRaises(margin_info, fallback_equity)
           THEN Unchanged /\ Log(<< >>, TRUE)
           ELSE IF \/ sizing.size <= 0
                   \/ ~validate_trade_size(symbol, sizing.size,
                           env.current_price,
                           SizerMargin(validate_margin))
           THEN Unchanged /\ Log(<< >>, FALSE)
           ELSE IF ~PAPER_TRADING /\ ~OrderAccepted(env.response)
           THEN Unchanged /\ Log(<<order>>, env.response = "raises")
           ELSE /\ open_trades' = [open_trades EXCEPT ![symbol] = record]
                /\ positions_file' = [positions_file EXCEPT
                                         ![symbol] = record]
                /\ trade_order' = IF symbol \in Range(trade_order)
                                  THEN trade_order
                                  ELSE Append(trade_order, symbol)
                /\ close_accepted' = close_accepted \ {symbol}
                /\ Log(IF PAPER_TRADING THEN << >> ELSE <<order>>, FALSE)

OrderResponses == {"0", "margin_validation_failed", "51000", "raises"}

\* Equity readings: the fetch raised, an answer without account data (read
\* as 0.0), the kill-switch threshold, the daily-loss threshold, one dollar
\* above it, the baseline.
EquityReadings ==
    {None, 0, (starting_equity * equity_kill_switch_pct) \div 100,
     starting_equity - (starting_equity * daily_loss_limit_pct) \div 100,
     starting_equity - (starting_equity * daily_loss_limit_pct) \div 100 + 1,
     starting_equity}

\* An environment in which every fetch answers and the account is healthy.
Calm ==
    [due |-> TRUE, equity |-> starting_equity, current_price |-> EntryPrice,
     candles |-> TRUE, margin_info |-> AvailableMargin,
     fallback_equity |-> FallbackEquity,
     validate_margin |-> AvailableMargin, response |-> "0"]

\* The environments of the model: Calm with one answer or one fetch
\* changed, and the margin fetch failing for the sizer and the validation
\* alike.
Environments ==
    {[Calm EXCEPT !.response = r] : r \in OrderResponses}
    \cup {[Calm EXCEPT !.due = d, !.equity = e] :
              d \in BOOLEAN, e \in EquityReadings}
    \cup {[Calm EXCEPT !.current_price = None],
          [Calm EXCEPT !.candles = FALSE],
          [Calm EXCEPT !.margin_info = None],
          [Calm EXCEPT !.margin_info = None, !.fallback_equity = None],
          [Calm EXCEPT !.margin_info = None, !.fallback_equity = 0],
          [Calm EXCEPT !.margin_info = None, !.validate_margin = None],
          [Calm EXCEPT !.margin_info = None, !.validate_margin = None,
                       !.response = "margin_validation_failed"]}

\* run_strategy_loop, lines 44-65: a symbol already in open_trades is
\* skipped, any other symbol with a signal goes to enter_trade.
EnterTrade ==
    \E symbol \in TRADING_SYMBOLS :
        /\ open_trades[symbol] = NoTrade
        /\ \/ \E direction \in Directions, signal_type \in SignalTypes :
                  enter_trade(symbol, direction, signal_type, Calm)
           \/ \E env \in Environments \ {Calm} :
                  enter_trade(symbol, "long", "traditional", env)

\* enter_trade called by any other caller: nothing in enter_trade looks
\* the symbol up in open_trades.
EnterTradeAnyCaller ==
    \E symbol \in TRADING_SYMBOLS :
        \/ \E direction \in Directions :
               enter_trade(symbol, direction, "traditional", Calm)
        \/ \E env \in Environments \ {Calm} :
               enter_trade(symbol, "long", "traditional", env)

\* reset_emergency_stop (lines 122-125).
ResetEmergencyStop ==
    /\ emergency_stop' = FALSE
    /\ Unchanged
    /\ Log(<< >>, FALSE)
    /\ lastEntry' = NoEntry
    /\ lastSync' = NoSync
    /\ lastCrash' = NoCrash
    /\ lastReversal' = NoReversal
    /\ lastSizing' = NoSizing

\* check_for_signal_reversal (lines 11-91).  old_enough is the test on the
\* position's age (at least two hours).
ReversalApproved(trade, new_signal_direction, signal_type, current_price, old_enough) ==
    LET entry_price == trade.entry_price
        stop_loss == trade.stop_loss
        long == trade.direction = "long"
        gain == IF long THEN current_price - entry_price
                ELSE entry_price - current_price
        risk_distance == IF long THEN entry_price - stop_loss
                         ELSE stop_loss - entry_price
        \* r_multiple >= 0.5, with r_multiple 0 when there is no stop or
        \* the risk distance is not positive
        half_r == /\ stop_loss # None /\ stop_loss # 0
                  /\ risk_distance > 0
                  /\ 2 * gain >= risk_distance
        \* pnl_pct >= 2.0
        two_pct == gain * 100 >= 2 * entry_price
    IN  /\ \/ long /\ new_signal_direction = "short"
           \/ ~long /\ new_signal_direction = "long"
        /\ current_price # None /\ current_price # 0
        /\ ~half_r
        /\ ~two_pct
        /\ old_enough
        /\ ~(signal_type # "momentum" /\ trade.signal_type = "momentum")

check_for_signal_reversal(symbol, new_signal_direction, signal_type, current_price, old_enough, close_ok) ==
    IF /\ open_trades[symbol] # NoTrade
       /\ ReversalApproved(open_trades[symbol], new_signal_direction,
                           signal_type, current_price, old_enough)
    THEN LET order == close_trade(open_trades[symbol], symbol, "REVERSAL",
                                  current_price, close_ok)
         IN  /\ close_accepted' = close_accepted \cup AcceptedCloses(<<order>>)
             /\ UNCHANGED <<open_trades, trade_order, positions_file>>
             /\ Log(<<order>>, FALSE)
             /\ lastEntry' = NoEntry
             /\ lastSync' = NoSync
             /\ lastCrash' = NoCrash
             /\ lastReversal' = [approved |-> TRUE, symbol |-> symbol,
                                 current_price |-> current_price,
                                 signal_type |-> signal_type,
                                 old_enough |-> old_enough]
             /\ lastSizing' = NoSizing
             /\ UNCHANGED emergency_stop
    ELSE Unchanged /\ Note(<< >>, FALSE)

\* The ticker prices a reversal check may see: none, the entry price, and
\* half a stop distance to either side of it.
ReversalPrices ==
    {None} \cup {EntryPrice + k * CandleATR : k \in {0 - 1, 0, 1}}

ReversalInputs ==
    TRADING_SYMBOLS \X Directions \X SignalTypes \X ReversalPrices \X BOOLEAN

Approves(in) ==
    /\ open_trades[in[1]] # NoTrade
    /\ ReversalApproved(open_trades[in[1]], in[2], in[3], in[4], in[5])

\* The step depends on the inputs only through the approval, the price of
\* an approved call and the answer to the close order: one approved call
\* for each price and one blocked call stand for all.
CheckForSignalReversal ==
    \/ \E current_price \in ReversalPrices :
       /\ {in \in ReversalInputs : in[4] = current_price /\ Approves(in)} # {}
       /\ LET in == CHOOSE a \in ReversalInputs :
                        a[4] = current_price /\ Approves(a)
          IN  \E close_ok \in
                 IF open_trades[in[1]].paper_trade THEN {TRUE} ELSE BOOLEAN :
                 check_for_signal_reversal(in[1], in[2], in[3], in[4], in[5],
                                           close_ok)
    \/ /\ {in \in ReversalInputs : ~Approves(in)} # {}
       /\ LET in == CHOOSE b \in ReversalInputs : ~Approves(b)
          IN  check_for_signal_reversal(in[1], in[2], in[3], in[4], in[5],
                                        TRUE)

-----------------------------------------------------------------------------
(* bot/sync.py                                                             *)

Truthy(x) == x # None /\ x # 0

\* Lines 40-50: the record of a position found on the exchange with no
\* usable record in the Store.
bare_record(direction, avgPx, size) ==
    [direction |-> direction,
     entry_price |-> avgPx,
     size |-> size,
     original_size |-> None,
     stop_loss |-> None,
     take_profit |-> None,
     profit_levels |-> EmptyDict,
     profits_taken |-> EmptyDict,
     high_water_mark |-> None,
     trailing_stop_active |-> FALSE,
     atr |-> None,
     signal_type |-> "manual_or_restart",
     paper_trade |-> FALSE,
     synced_from_exchange |-> TRUE]

\* A Store that is never good enough to restore from.
NeverRestorable(saved_position) == FALSE

\* Line 34: the saved record is restored when it has a stop_loss and a
\* take_profit that are truthy.
Restorable(saved_position) ==
    /\ saved_position # NoTrade
    /\ Truthy(saved_position.stop_loss)
    /\ Truthy(saved_position.take_profit)

\* A sync that drops paper-trade records as well.
StaleEvenIfPaper(record) == TRUE

\* Line 59: a record the exchange did not report is stale unless it is a
\* paper trade.
Stale(record) == ~record.paper_trade

\* A sync that takes every reported symbol for an untracked one.
NeverTracked(ledger, symbol) == FALSE

\* Line 27: `symbol not in open_trades` is false for a tracked symbol.
Tracked(ledger, symbol) == ledger[symbol] # NoTrade

\* Lines 26-54: the exchange-reported symbols missing from the Ledger, in
\* the order of the report.
RECURSIVE RestoreLoop(_, _, _, _)
RestoreLoop(st, report, i, side) ==
    IF i > Len(report) THEN st
    ELSE
    LET symbol == report[i]
        saved_position == positions_file[symbol]
        restored == IF Restorable(saved_position)
                    THEN saved_position
                    ELSE bare_record(side[symbol], EntryPrice, ReportedSize)
    IN  IF Tracked(st.ledger, symbol)
        THEN RestoreLoop(st, report, i + 1, side)
        ELSE RestoreLoop([ledger |-> [st.ledger EXCEPT ![symbol] = restored],
                          order |-> IF symbol \in Range(st.order)
                                    THEN st.order
                                    ELSE Append(st.order, symbol)],
                         report, i + 1, side)

\* get_open_positions (exchange_okx.py lines 312-360): the symbols of the
\* positions the exchange holds, or the empty list when the answer's code
\* is not "0" or the request raised (lines 324-326 and 358-360).
get_open_positions(positions, failed) ==
    IF failed THEN << >> ELSE positions

\* sync_positions_with_exchange (lines 11-77).  report is what
\* get_open_positions returned, the reported symbols in order; failed tells
\* whether that fetch failed.
sync_positions_with_exchange(report, side, failed) ==
    LET st == RestoreLoop([ledger |-> open_trades, order |-> trade_order],
                          report, 1, side)
        symbols_to_remove == {s \in Range(st.order) :
                                 /\ s \notin Range(report)
                                 /\ Stale(st.ledger[s])}
    IN  /\ open_trades' = [s \in Symbols |->
                              IF s \in symbols_to_remove THEN NoTrade
                              ELSE st.ledger[s]]
        /\ positions_file' = [s \in Symbols |->
                              IF s \in symbols_to_remove THEN NoTrade
                              ELSE positions_file[s]]
        /\ trade_order' = Without(st.order, symbols_to_remove)
        /\ close_accepted' = close_accepted \ symbols_to_remove
        /\ Log(<< >>, FALSE)
        /\ lastEntry' = NoEntry
        /\ lastCrash' = NoCrash
        /\ lastReversal' = NoReversal
        /\ lastSizing' = NoSizing
        /\ lastSync' = [synced |-> TRUE, failed |-> failed,
                        report |-> report,
                        added |-> Range(st.order) \ Range(trade_order),
                        repeated |-> /\ lastSync.synced
                                     /\ lastSync.report = report]
        /\ UNCHANGED emergency_stop

Reports == {<< >>} \cup {<<s>> : s \in Symbols}
               \cup {<<p[1], p[2]>> : p \in {q \in Symbols \X Symbols : q[1] # q[2]}}

\* run_strategy_loop, lines 21-23 and 78-80: only in live trading.
SyncPositions ==
    /\ ~PAPER_TRADING
    /\ \E positions \in Reports, side \in [TRADING_SYMBOLS -> Directions],
          failed \in BOOLEAN :
           /\ Range(positions) \subseteq TRADING_SYMBOLS
           /\ sync_positions_with_exchange(
                  get_open_positions(positions, failed), side, failed)

-----------------------------------------------------------------------------
(* bot/position_migration.py                                               *)

\* The ATR a migrated record gets when it has none: 50.0.
DefaultATR == 50 * 100

\* A migration that does not look for the fields of the staged format.
migrate_unconditionally(position) ==
    IF ~(/\ Truthy(position.entry_price)
         /\ Truthy(position.stop_loss)
         /\ Truthy(position.size))
    THEN position
    ELSE LET profit_levels == calculate_profit_levels(
                 position.entry_price, position.stop_loss,
                 position.direction)
         IN  [position EXCEPT
                 !.original_size = position.size,
                 !.profit_levels = profit_levels,
                 !.profits_taken = NoTaken,
                 !.high_water_mark = position.entry_price,
                 !.trailing_stop_active = FALSE,
                 !.atr = IF position.atr = None THEN DefaultATR
                         ELSE position.atr,
                 !.take_profit = profit_levels["2R"]]

migrate_position_to_staged_format(position) ==
    IF /\ position.profit_levels # EmptyDict
       /\ position.profits_taken # EmptyDict
    THEN position
    ELSE IF ~(/\ Truthy(position.entry_price)
              /\ Truthy(position.stop_loss)
              /\ Truthy(position.size))
    THEN position
    ELSE LET profit_levels == calculate_profit_levels(
                 position.entry_price, position.stop_loss,
                 position.direction)
         IN  [position EXCEPT
                 !.original_size = position.size,
                 !.profit_levels = profit_levels,
                 !.profits_taken = NoTaken,
                 !.high_water_mark = position.entry_price,
                 !.trailing_stop_active = FALSE,
                 !.atr = IF position.atr = None THEN DefaultATR
                         ELSE position.atr,
                 !.take_profit = profit_levels["2R"]]

\* migrate_all_positions (lines 51-75): every Ledger record is migrated, and
\* a record that had no profit_levels is written to the Store.
MigrateAllPositions ==
    /\ ~PAPER_TRADING
    /\ open_trades' = [s \in Symbols |->
           IF open_trades[s] = NoTrade THEN NoTrade
           ELSE migrate_position_to_staged_format(open_trades[s])]
    /\ positions_file' = [s \in Symbols |->
           IF open_trades[s] # NoTrade
              /\ open_trades[s].profit_levels = EmptyDict
           THEN migrate_position_to_staged_format(open_trades[s])
           ELSE positions_file[s]]
    /\ UNCHANGED <<trade_order, close_accepted>>
    /\ Note(<< >>, FALSE)

-----------------------------------------------------------------------------
(* The process                                                             *)

\* A record written by a version of the bot that had no staged exits.
legacy_record(direction) ==
    [direction |-> direction,
     entry_price |-> EntryPrice,
     size |-> ReportedSize,
     original_size |-> None,
     stop_loss |-> IF direction = "long" THEN EntryPrice - PriceStep
                   ELSE EntryPrice + PriceStep,
     take_profit |-> IF direction = "long" THEN EntryPrice + 2 * PriceStep
                     ELSE EntryPrice - 2 * PriceStep,
     profit_levels |-> EmptyDict,
     profits_taken |-> EmptyDict,
     high_water_mark |-> None,
     trailing_stop_active |-> FALSE,
     atr |-> None,
     signal_type |-> "traditional",
     paper_trade |-> FALSE,
     synced_from_exchange |-> FALSE]

ConfiguredLevels == [l \in LevelSet |-> 25]

\* The Store file a starting process may find: empty, or holding one record
\* of the legacy format.
InitialStores ==
    {[s \in Symbols |-> NoTrade]}
        \cup {[s \in Symbols |-> IF s = t THEN legacy_record("long")
                                 ELSE NoTrade] : t \in {"LTC-USDT-SWAP"}}

InitCommon ==
    /\ open_trades = [s \in Symbols |-> NoTrade]
    /\ trade_order = << >>
    /\ profit_taking \in {EmptyDict, ConfiguredLevels}
    /\ close_accepted = {}
    /\ lastOrders = << >>
    /\ lastPrice = NoPrices
    /\ raised = FALSE
    /\ emergency_stop = FALSE
    /\ lastEntry = NoEntry
    /\ lastSync = NoSync
    /\ lastCrash = NoCrash
    /\ lastReversal = NoReversal
    /\ lastSizing = NoSizing

\* Live trading of one symbol, with the default limit of five positions.
Init ==
    /\ InitCommon
    /\ positions_file \in InitialStores
    /\ PAPER_TRADING = FALSE
    /\ TRADING_SYMBOLS = {"LTC-USDT-SWAP"}
    /\ max_open_trades = 5

Next ==
    \/ EnterTrade
    \/ CheckAndCloseTrades
    \/ CheckForSignalReversal
    \/ SyncPositions
    \/ MigrateAllPositions

Spec == Init /\ [][Next]_vars

\* The bot's operations called by any caller: enter_trade without the
\* polling loop's lookup of the symbol, reset_emergency_stop, and the
\* position limit set to one or left at its default.
InitCallers ==
    /\ InitCommon
    /\ positions_file = [s \in Symbols |-> NoTrade]
    /\ profit_taking = ConfiguredLevels
    /\ PAPER_TRADING = FALSE
    /\ TRADING_SYMBOLS = Symbols
    /\ max_open_trades \in {1, 5}

NextCallers ==
    \/ EnterTradeAnyCaller
    \/ ResetEmergencyStop
    \/ SyncPositions

SpecCallers == InitCallers /\ [][NextCallers]_vars

\* The record an earlier run in paper trading left in the Store.
paper_record(direction) ==
    position_data(direction, EntryPrice,
                  get_stop_and_size("LTC-USDT-SWAP", EntryPrice, direction,
                                    CandleATR, 0, AvailableMargin, None),
                  "traditional", TRUE)

\* The process ends and a new one starts: open_trades is the empty dict
\* again (trade_executor.py line 9), the SafetyManager is built anew, and
\* the Store file is what the old process left.
Restart ==
    /\ open_trades' = [s \in Symbols |-> NoTrade]
    /\ trade_order' = << >>
    /\ close_accepted' = {}
    /\ emergency_stop' = FALSE
    /\ UNCHANGED positions_file
    /\ Log(<< >>, FALSE)
    /\ lastEntry' = NoEntry
    /\ lastSync' = NoSync
    /\ lastCrash' = NoCrash
    /\ lastReversal' = NoReversal
    /\ lastSizing' = NoSizing

\* save_position (position_storage.py lines 18-29) run to its end: the
\* mapping is loaded, the symbol's entry replaced and the file rewritten.
save_position(positions, symbol, record) ==
    [positions EXCEPT ![symbol] = record]

\* load_all_positions (lines 40-47): the mapping the file holds, or the
\* empty mapping when json.load raises on it (lines 45-47).  content.whole
\* tells whether the file is a complete JSON document.
load_all_positions(content) ==
    IF content.whole THEN content.data ELSE [s \in Symbols |-> NoTrade]

\* The points of save_position at which the process may die: before
\* open(file, 'w') (line 24), between that call, which truncates the file,
\* and the end of the with block, or after it.
CrashPoints == {"before_open", "writing", "closed"}

\* The file a crash at this point leaves behind.
FileAfterCrash(point, before, after) ==
    IF point = "before_open" THEN [whole |-> TRUE, data |-> before]
    ELSE IF point = "closed" THEN [whole |-> TRUE, data |-> after]
    ELSE [whole |-> FALSE]

\* The process dies in enter_trade's call of save_position
\* (trade_executor.py line 183), after the order was accepted and the
\* record assigned, and a new process starts and loads the file.  The log
\* of the step is that of the new process.
CrashDuringSave ==
    \E symbol \in TRADING_SYMBOLS, direction \in Directions,
       point \in CrashPoints :
        LET sizing == get_stop_and_size(symbol, EntryPrice, direction,
                          CandleATR, 0, AvailableMargin, FallbackEquity)
            record == position_data(direction, EntryPrice, sizing,
                                    "traditional", PAPER_TRADING)
            after == save_position(positions_file, symbol, record)
        IN  /\ open_trades[symbol] = NoTrade
            /\ ~emergency_stop
            /\ positions_file' = load_all_positions(
                   FileAfterCrash(point, positions_file, after))
            /\ open_trades' = [s \in Symbols |-> NoTrade]
            /\ trade_order' = << >>
            /\ close_accepted' = {}
            /\ emergency_stop' = FALSE
            /\ Log(<< >>, FALSE)
            /\ lastEntry' = NoEntry
            /\ lastSync' = NoSync
            /\ lastCrash' = [crashed |-> TRUE, point |-> point,
                             before |-> positions_file, after |-> after]
            /\ lastReversal' = NoReversal
            /\ lastSizing' = NoSizing

\* The polling loop over several process lifetimes, the first of which may
\* find a paper-trading record in the Store.
InitRestarts ==
    /\ InitCommon
    /\ positions_file \in InitialStores \cup
           {[s \in Symbols |-> IF s = "LTC-USDT-SWAP"
                               THEN paper_record(d) ELSE NoTrade] :
               d \in Directions}
    /\ PAPER_TRADING = FALSE
    /\ TRADING_SYMBOLS = {"LTC-USDT-SWAP"}
    /\ max_open_trades = 5

NextRestarts ==
    \/ EnterTrade
    \/ CheckAndCloseTrades
    \/ CheckForSignalReversal
    \/ SyncPositions
    \/ MigrateAllPositions
    \/ Restart
    \/ CrashDuringSave

SpecRestarts == InitRestarts /\ [][NextRestarts]_vars

-----------------------------------------------------------------------------
(* Claims                                                                  *)

Held == {s \in Symbols : open_trades[s] # NoTrade}

OrdersOf(orders, kind) ==
    {orders[i] : i \in {j \in 1..Len(orders) : orders[j].kind = kind}}

\* C1: a profit level realized with a successful partial exit leaves the
\* stop at the entry price on 1R, at the position's own 1R target on 2R and
\* at its own 2R target on 3R.  (The claim as stated; the code violates it.)
C1_RatchetToOwnTargets ==
    \A o \in OrdersOf(lastOrders, "partial") :
        (o.ok /\ o.sym \in Held) =>
            LET trade == open_trades[o.sym]
            IN  /\ o.level = "1R" => trade.stop_loss = trade.entry_price
                /\ o.level = "2R" =>
                       trade.stop_loss = trade.profit_levels["1R"]
                /\ o.level = "3R" =>
                       trade.stop_loss = trade.profit_levels["2R"]

\* C2: over any step that keeps a position with a stop, the stop of a long
\* never decreases and the stop of a short never increases.  (The claim as
\* stated; the code violates it.)
StopNeverWorsens(s) ==
    (/\ open_trades[s] # NoTrade /\ open_trades'[s] # NoTrade
     /\ open_trades[s].stop_loss # None /\ open_trades'[s].stop_loss # None)
    => IF open_trades[s].direction = "long"
       THEN open_trades'[s].stop_loss >= open_trades[s].stop_loss
       ELSE open_trades'[s].stop_loss <= open_trades[s].stop_loss

C2_StopMonotone == [][\A s \in Symbols : StopNeverWorsens(s)]_vars

\* C3: after a pass in which the stop of a position was breached, its record
\* is gone from the Ledger and the Store exactly when the full-close order
\* succeeded.  (The claim as stated; the code violates it.)
C3_RemovedIffCloseSucceeded ==
    \A o \in OrdersOf(lastOrders, "close") :
        o.level = "STOP_LOSS" =>
            ((open_trades[o.sym] = NoTrade /\ positions_file[o.sym] = NoTrade)
                 <=> o.ok)

\* C4: once the exchange has accepted a full-close order for a position, no
\* step submits another exit order, partial or full, for that position.
\* (The claim as stated; the code violates it.)
C4_NoExitAfterAcceptedClose ==
    [][\A o \in OrdersOf(lastOrders', "partial")
               \cup OrdersOf(lastOrders', "close") :
           o.live => o.sym \notin close_accepted]_vars

\* C5: whenever close_trade's order for the full remaining size succeeds,
\* for any caller, the record is absent from the Ledger and the Store when
\* the calling operation returns.  (The claim as stated; the code violates
\* it.)
C5_ClosedRecordAbsent ==
    \A o \in OrdersOf(lastOrders, "close") :
        o.ok => (open_trades[o.sym] = NoTrade
                     /\ positions_file[o.sym] = NoTrade)

\* C6: a step in which the partial-exit order for a reached level fails
\* leaves that level unrealized and leaves the position's size, stop_loss,
\* trailing_stop_active and Store record as they were.
FailedPartialLeavesRecord(o) ==
    /\ open_trades[o.sym] # NoTrade
    /\ open_trades'[o.sym] # NoTrade
    /\ ~Taken(open_trades'[o.sym], o.level)
    /\ open_trades'[o.sym].size = open_trades[o.sym].size
    /\ open_trades'[o.sym].stop_loss = open_trades[o.sym].stop_loss
    /\ open_trades'[o.sym].trailing_stop_active
           = open_trades[o.sym].trailing_stop_active
    /\ positions_file'[o.sym] = positions_file[o.sym]

C6_FailedPartialChangesNothing ==
    [][\A o \in OrdersOf(lastOrders', "partial") :
           ~o.ok => FailedPartialLeavesRecord(o)]_vars

\* A failed partial exit at 2R of a position that realized 1R before.
C6_FailedPartialSeen ==
    \E o \in OrdersOf(lastOrders, "partial") :
        /\ ~o.ok /\ o.level = "2R" /\ o.sym \in Held
        /\ Taken(open_trades[o.sym], "1R")
        /\ ~Taken(open_trades[o.sym], "2R")

\* C7: over one step at most one profit level of a position goes from
\* unrealized to realized.
Flipped(s) ==
    {l \in LevelSet : /\ ~Taken(open_trades[s], l)
                      /\ Taken(open_trades'[s], l)}

C7_OneLevelPerPass ==
    [][\A s \in Symbols :
           (open_trades[s] # NoTrade /\ open_trades'[s] # NoTrade)
               => Cardinality(Flipped(s)) <= 1]_vars

\* A pass that realized 1R at a price that had reached the 2R target too.
C7_PriceBeyondTwoTargets ==
    \E o \in OrdersOf(lastOrders, "partial") :
        /\ o.ok /\ o.level = "1R" /\ o.sym \in Held
        /\ lastPrice[o.sym] # None
        /\ Taken(open_trades[o.sym], "1R")
        /\ LevelHit(open_trades[o.sym], "2R", lastPrice[o.sym])

\* C8: in every reachable state a realized level of a position implies that
\* every lower level is realized too.
C8_RealizedInOrder ==
    \A s \in Held :
        \A i \in 1..Len(LevelOrder), j \in 1..Len(LevelOrder) :
            (RMultiple[LevelOrder[j]] < RMultiple[LevelOrder[i]]
                /\ Taken(open_trades[s], LevelOrder[i]))
              => Taken(open_trades[s], LevelOrder[j])

\* A position that has just realized 2R after 1R, with 3R still ahead.
C8_TwoLevelsRealized ==
    \E o \in OrdersOf(lastOrders, "partial") :
        /\ o.ok /\ o.level = "2R" /\ o.sym \in Held
        /\ Taken(open_trades[o.sym], "1R")
        /\ Taken(open_trades[o.sym], "2R")
        /\ ~Taken(open_trades[o.sym], "3R")

\* C9: over any step that keeps a position, no profits_taken flag goes from
\* true to false and the profit_levels targets, once set, stay the same.
FlagsAndTargetsKept(s) ==
    (open_trades[s] # NoTrade /\ open_trades'[s] # NoTrade) =>
        /\ \A l \in LevelSet :
               Taken(open_trades[s], l) => Taken(open_trades'[s], l)
        /\ open_trades[s].profit_levels # EmptyDict =>
               open_trades'[s].profit_levels = open_trades[s].profit_levels

C9_FlagsAndTargetsImmutable ==
    [][\A s \in Symbols : FlagsAndTargetsKept(s)]_vars

\* A record restored by the sync and migrated that has since realized 1R
\* and been through a later pass.
C9_MigratedAndRealized ==
    \E s \in Held :
        /\ open_trades[s].atr = DefaultATR
        /\ Taken(open_trades[s], "1R")
        /\ lastPrice[s] # None
        /\ lastOrders = << >>

\* C10: the high-water mark of a position never retreats, and after a pass
\* that knew the price it is at least as favourable as that price.
AsFavourable(direction, a, b) ==
    IF direction = "long" THEN a >= b ELSE a <= b

HWMNeverRetreats(s) ==
    (open_trades[s] # NoTrade /\ open_trades'[s] # NoTrade) =>
        AsFavourable(open_trades[s].direction, GetHWM(open_trades'[s]),
                     GetHWM(open_trades[s]))

HWMCoversPrice(s) ==
    AsFavourable(open_trades'[s].direction, GetHWM(open_trades'[s]),
                 lastPrice'[s])

\* The claim as stated, for every position: a position without a stop
\* violates its second half.
HWMOfEveryPosition ==
    \A s \in Symbols :
        /\ HWMNeverRetreats(s)
        /\ (open_trades'[s] # NoTrade /\ lastPrice'[s] # None)
               => HWMCoversPrice(s)

C10_HWMOfEveryPosition ==
    [][HWMOfEveryPosition \/ ~CheckAndCloseTrades]_vars

\* Amended: over a pass the high-water mark of a position never retreats,
\* and after a pass that knew the price the high-water mark of a position
\* whose stop is set is at least as favourable as that price.
HWMOfStoppedPosition ==
    \A s \in Symbols :
        /\ HWMNeverRetreats(s)
        /\ (/\ open_trades'[s] # NoTrade
            /\ lastPrice'[s] # None
            /\ open_trades'[s].stop_loss # None)
               => HWMCoversPrice(s)

C10_HWMMonotone ==
    [][HWMOfStoppedPosition \/ ~CheckAndCloseTrades]_vars

\* A position with a stop whose mark had advanced before the price of the
\* last pass fell back below it.
C10_PriceFellBack ==
    \E s \in Held :
        /\ open_trades[s].stop_loss # None
        /\ lastPrice[s] # None
        /\ GetHWM(open_trades[s]) # open_trades[s].entry_price
        /\ GetHWM(open_trades[s]) # lastPrice[s]
        /\ AsFavourable(open_trades[s].direction, GetHWM(open_trades[s]),
                        lastPrice[s])

\* The opening orders of a step.
Opened(orders) == OrdersOf(orders, "open")

\* C11: enter_trade invoked for a symbol that is already in the Ledger
\* submits no opening order and leaves the Ledger and the Store unchanged.
\* (The claim as stated; enter_trade itself never looks the symbol up.)
C11_HeldSymbolNotReentered ==
    [][(lastEntry'.called /\ open_trades[lastEntry'.symbol] # NoTrade) =>
          /\ Opened(lastOrders') = {}
          /\ open_trades' = open_trades
          /\ positions_file' = positions_file]_vars

\* C12: once emergency_stop is set, every call of should_allow_trading
\* answers false and enter_trade creates no record and submits no order,
\* whatever the equity reading, and the flag stays set, until
\* reset_emergency_stop is called.
C12_StopIsSticky ==
    [][emergency_stop =>
          /\ emergency_stop' \/ ResetEmergencyStop
          /\ lastEntry'.called =>
                 /\ ~lastEntry'.allow
                 /\ Opened(lastOrders') = {}
                 /\ open_trades' = open_trades
                 /\ positions_file' = positions_file]_vars

\* The gate was asked with the flag set, an equity check due and the equity
\* back at the baseline, and refused.
C12_RefusedAfterRecovery ==
    /\ lastEntry.called
    /\ lastEntry.stopped
    /\ lastEntry.due
    /\ lastEntry.equity = starting_equity
    /\ ~lastEntry.allow
    /\ emergency_stop

\* The equity reading breaches the kill switch or the daily-loss limit.
Breach(current_equity) ==
    /\ current_equity # None
    /\ \/ current_equity * 100 <= starting_equity * equity_kill_switch_pct
       \/ (starting_equity - current_equity) * 100
              >= starting_equity * daily_loss_limit_pct

\* The last step asked the gate and the gate re-evaluated the equity.
Reevaluated == lastEntry.called /\ lastEntry.due /\ ~lastEntry.stopped

\* C13: a should_allow_trading call that re-evaluates the equity and finds
\* it at or below the kill-switch threshold, or the loss at or above the
\* daily-loss threshold, sets emergency_stop and answers false.
C13_BreachSetsStop ==
    (Reevaluated /\ Breach(lastEntry.equity)) =>
        emergency_stop /\ ~lastEntry.allow

\* The equity was read exactly at the daily-loss threshold, above the
\* kill-switch threshold.
C13_AtDailyLossThreshold ==
    /\ Reevaluated
    /\ (starting_equity - lastEntry.equity) * 100
           = starting_equity * daily_loss_limit_pct
    /\ emergency_stop

\* C14: a should_allow_trading call whose equity fetch raises does not set
\* emergency_stop, and answers true when the Ledger is below the maximum
\* count of open positions.
C14_EquityErrorFailsOpen ==
    (Reevaluated /\ lastEntry.equity = None) =>
        /\ ~emergency_stop
        /\ lastEntry.count < max_open_trades => lastEntry.allow

\* The equity fetch raised and the entry went on to open a position.
C14_EnteredDespiteError ==
    /\ Reevaluated
    /\ lastEntry.equity = None
    /\ lastEntry.allow
    /\ Opened(lastOrders) # {}

\* C15: an enter_trade call made while the Ledger holds max_open_trades
\* records (or more) adds no record and submits no opening order.
C15_NoEntryAtLimit ==
    [][(lastEntry'.called /\ Len(trade_order) >= max_open_trades) =>
          /\ Opened(lastOrders') = {}
          /\ open_trades' = open_trades
          /\ trade_order' = trade_order
          /\ positions_file' = positions_file]_vars

\* enter_trade was called for a symbol not in the Ledger, with the flag
\* clear and a healthy account, while the Ledger was at its limit.
C15_RefusedAtLimit ==
    /\ lastEntry.called
    /\ ~lastEntry.stopped
    /\ lastEntry.equity = starting_equity
    /\ lastEntry.count >= max_open_trades
    /\ open_trades[lastEntry.symbol] = NoTrade
    /\ ~lastEntry.allow

\* C16: when the opening order is rejected, by the margin validation or by
\* any other failure, enter_trade leaves the Ledger and the Store as they
\* were.
C16_RejectedOrderChangesNothing ==
    [][(lastEntry'.called /\ \E o \in Opened(lastOrders') : o.code # "0") =>
          /\ open_trades' = open_trades
          /\ trade_order' = trade_order
          /\ positions_file' = positions_file]_vars

\* The opening order was refused by the margin validation of place_order.
C16_MarginRejection ==
    /\ lastEntry.called
    /\ \E o \in Opened(lastOrders) : o.code = "margin_validation_failed"

\* The opening orders that went to the exchange: place_order answers
\* margin_validation_failed without posting the order.
Submitted(orders) ==
    {o \in Opened(orders) : o.code # "margin_validation_failed"}

\* C17: when the margin fetch fails while an entry is sized, enter_trade
\* creates no record and submits no order.  (The claim as stated; the sizer
\* falls back to the account equity.)
C17_NoSizingWithoutMargin ==
    [][(lastEntry'.called /\ lastEntry'.sized
           /\ lastEntry'.margin_info = None) =>
          /\ Submitted(lastOrders') = {}
          /\ open_trades' = open_trades
          /\ positions_file' = positions_file]_vars

\* C18: a sync whose fetch of the open positions failed leaves every
\* Ledger record and every Store record unchanged.  (The claim as stated;
\* the failed fetch is read as a report of no positions.)
C18_FailedFetchChangesNothing ==
    [][(lastSync'.synced /\ lastSync'.failed) =>
          /\ open_trades' = open_trades
          /\ positions_file' = positions_file]_vars

\* The Ledger symbols a step's sync found missing from the Ledger.
Untracked(report) == {s \in Range(report) : open_trades[s] = NoTrade}

\* A record with no stop and the externally-sourced flag.
Bare(record) ==
    /\ record # NoTrade
    /\ record.stop_loss = None
    /\ record.synced_from_exchange

\* C19 as stated: after a sync every reported symbol that was absent from
\* the Ledger is in it, as the Store's record whenever the Store holds one
\* and as a bare record otherwise.
C19_RestoredFromStore ==
    [][lastSync'.synced =>
          \A s \in Untracked(lastSync'.report) :
              IF positions_file[s] # NoTrade
              THEN open_trades'[s] = positions_file[s]
              ELSE Bare(open_trades'[s])]_vars

\* A saved record with both stop_loss and take_profit set.
Usable(record) ==
    /\ record # NoTrade
    /\ record.stop_loss \notin {None, 0}
    /\ record.take_profit \notin {None, 0}

\* C19: after a sync every reported symbol that was absent from the Ledger
\* is in it, as the Store's record when the Store holds one with stop_loss
\* and take_profit set, and as a bare record otherwise.
C19_RestoredWhenUsable ==
    [][lastSync'.synced =>
          \A s \in Untracked(lastSync'.report) :
              IF Usable(positions_file[s])
              THEN open_trades'[s] = positions_file[s]
              ELSE Bare(open_trades'[s])]_vars

\* A sync brought back a saved record on which the 1R exit had been taken.
C19_RestoredAfterFirstExit ==
    /\ lastSync.synced
    /\ \E s \in lastSync.added :
           /\ open_trades[s] = positions_file[s]
           /\ Taken(open_trades[s], "1R")

\* C20: after a sync every Ledger record the exchange did not report is
\* gone from the Ledger and the Store unless it is a paper trade, and every
\* paper-trade record is still in both.
C20_StaleRemovedPaperKept ==
    [][lastSync'.synced =>
          \A s \in Held :
              IF open_trades[s].paper_trade
              THEN /\ open_trades'[s] = open_trades[s]
                   /\ positions_file'[s] = positions_file[s]
              ELSE s \notin Range(lastSync'.report) =>
                       /\ open_trades'[s] = NoTrade
                       /\ positions_file'[s] = NoTrade]_vars

\* After a sync the Ledger holds a paper-trade record the exchange did not
\* report.
C20_PaperRecordKept ==
    /\ lastSync.synced
    /\ \E s \in Held : /\ open_trades[s].paper_trade
                        /\ s \notin Range(lastSync.report)

\* C21: a sync that follows a sync directly and gets the same report
\* changes nothing in the Ledger or the Store.
C21_SecondSyncChangesNothing ==
    [][(lastSync.synced /\ lastSync'.synced
           /\ lastSync'.report = lastSync.report) =>
          /\ open_trades' = open_trades
          /\ trade_order' = trade_order
          /\ positions_file' = positions_file]_vars

\* A sync repeated with the same report, which names a position the
\* Ledger holds as a bare record.
C21_RepeatedAfterRestore ==
    /\ lastSync.synced
    /\ lastSync.repeated
    /\ \E s \in Range(lastSync.report) : Bare(open_trades[s])

\* What a pass does to the bare records of the Ledger: nothing.
BareRecordsUntouched ==
    \A s \in Held :
        Bare(open_trades[s]) =>
            /\ open_trades'[s] = open_trades[s]
            /\ positions_file'[s] = positions_file[s]
            /\ \A i \in 1..Len(lastOrders') : lastOrders'[i].sym # s

\* C22: a check_and_close_trades pass submits no order for a record that
\* was recovered from the exchange without a stop (stop_loss unset,
\* externally-sourced flag set) and neither changes nor removes it,
\* whatever the price.
C22_BareRecordLeftAlone ==
    [][BareRecordsUntouched \/ ~CheckAndCloseTrades]_vars

\* A pass fetched a price four steps away from the entry price for a
\* bare record.
C22_BareRecordFarFromEntry ==
    \E s \in Held :
        /\ Bare(open_trades[s])
        /\ lastPrice[s] # None
        /\ Abs(lastPrice[s] - open_trades[s].entry_price) = 4 * PriceStep

\* The records of the Ledger and the Store.
Records ==
    ({open_trades[s] : s \in Symbols}
        \cup {positions_file[s] : s \in Symbols}) \ {NoTrade}

\* C23: migrating a record twice gives the record that migrating it once
\* gives, and migrating a record that has both profit_levels and
\* profits_taken changes nothing.
C23_MigrationIdempotent ==
    \A position \in Records :
        /\ migrate_position_to_staged_format(
               migrate_position_to_staged_format(position))
              = migrate_position_to_staged_format(position)
        /\ (position.profit_levels # EmptyDict
               /\ position.profits_taken # EmptyDict)
              => migrate_position_to_staged_format(position) = position

\* The Ledger holds a record the migration brought to the staged format
\* (only the migration gives a record the ATR of 50.0), with no level
\* realized yet.
C23_LegacyRecordMigrated ==
    \E s \in Held :
        /\ open_trades[s].atr = DefaultATR
        /\ open_trades[s].profits_taken = NoTaken
        /\ open_trades[s].original_size = open_trades[s].size

\* C24: after a crash during save_position, load_all_positions returns
\* the whole mapping of before the operation or the whole mapping of after
\* it.  (The claim as stated; the file is rewritten in place.)
C24_CrashLeavesWholeMapping ==
    lastCrash.crashed =>
        positions_file \in {lastCrash.before, lastCrash.after}

\* A record that enter_trade created: it has the targets and the ATR of
\* the sizer, where a migrated record has the ATR of 50.0.
Entered(record) ==
    /\ record # NoTrade
    /\ record.profit_levels # EmptyDict
    /\ record.atr \notin {None, DefaultATR}
    /\ ~record.synced_from_exchange

\* The Store's record has the Ledger's size, stop, realized flags,
\* high-water mark and trailing flag.
Flushed(ledger_record, store_record) ==
    /\ store_record # NoTrade
    /\ store_record.size = ledger_record.size
    /\ store_record.stop_loss = ledger_record.stop_loss
    /\ store_record.profits_taken = ledger_record.profits_taken
    /\ store_record.high_water_mark = ledger_record.high_water_mark
    /\ store_record.trailing_stop_active = ledger_record.trailing_stop_active

EnteredRecordsFlushed ==
    \A s \in Symbols :
        Entered(open_trades'[s]) => Flushed(open_trades'[s], positions_file'[s])

\* C25: at the end of every check_and_close_trades pass the Store's record
\* of each position that enter_trade created and the Ledger still holds
\* equals the Ledger's in size, stop_loss, profits_taken, high_water_mark
\* and trailing_stop_active.  (The claim as stated; the pass writes the
\* Store only after a successful partial exit.)
C25_StoreShadowsLedger ==
    [][EnteredRecordsFlushed \/ ~CheckAndCloseTrades]_vars

\* The state right after an enter_trade call whose opening order the
\* exchange accepted.
JustEntered(s) ==
    /\ lastEntry.called
    /\ lastEntry.symbol = s
    /\ \E o \in OrdersOf(lastOrders, "open") : o.sym = s /\ o.ok

\* n times the distance of the stop from the entry, on the profit side.
TargetAt(record, n) ==
    IF record.direction = "long"
    THEN record.entry_price + n * Abs(record.entry_price - record.stop_loss)
    ELSE record.entry_price - n * Abs(record.entry_price - record.stop_loss)

\* C26: the record a successful enter_trade creates has the targets
\* entry +/- n * |entry - stop| for n = 1..4 (above the entry for a long,
\* below for a short), all four realized flags false, high_water_mark equal
\* to the entry price, trailing_stop_active false and original_size equal
\* to size, and the Store holds the same record.
C26_NewRecordComplete ==
    \A s \in Symbols :
        JustEntered(s) =>
            LET record == open_trades[s]
            IN  /\ record # NoTrade
                /\ record.profit_levels =
                       [l \in LevelSet |-> TargetAt(record, RMultiple[l])]
                /\ record.profit_levels["1R"] # record.entry_price
                /\ record.profits_taken = [l \in LevelSet |-> FALSE]
                /\ record.high_water_mark = record.entry_price
                /\ ~record.trailing_stop_active
                /\ record.original_size = record.size
                /\ positions_file[s] = record

C26_ShortEntered ==
    \E s \in Symbols :
        /\ JustEntered(s)
        /\ open_trades[s] # NoTrade
        /\ open_trades[s].direction = "short"
        /\ open_trades[s].profit_levels["4R"] < open_trades[s].entry_price
        /\ positions_file[s] = open_trades[s]

\* A long position with a stop and targets that has realized no level yet,
\* seen by the pass at or above its 1R target.
FirstTargetSeen(s) ==
    /\ open_trades[s] # NoTrade
    /\ open_trades[s].direction = "long"
    /\ open_trades[s].stop_loss # None
    /\ open_trades[s].stop_loss < open_trades[s].entry_price
    /\ "1R" \in DOMAIN open_trades[s].profit_levels
    /\ open_trades[s].profit_levels["1R"] =
           2 * open_trades[s].entry_price - open_trades[s].stop_loss
    /\ \A l \in LevelSet : ~Taken(open_trades[s], l)
    /\ lastPrice'[s] # None
    /\ lastPrice'[s] >= open_trades[s].profit_levels["1R"]

\* The pass asks for a reduce-only exit of a quarter of the size and, when
\* the exchange accepts it, leaves three quarters, 1R realized and the stop
\* at the entry price.
FirstTargetRealized(s) ==
    LET trade == open_trades[s]
        exit_size == RoundHalfEven(trade.size * 25, 100)
        asked == {o \in OrdersOf(lastOrders', "partial") : o.sym = s}
    IN  /\ asked # {}
        /\ \A o \in asked : o.level = "1R" /\ o.size = exit_size
        /\ \A o \in asked :
               o.ok => /\ open_trades'[s] # NoTrade
                       /\ open_trades'[s].size = trade.size - exit_size
                       /\ 4 * open_trades'[s].size = 3 * trade.size
                       /\ open_trades'[s].profits_taken["1R"]
                       /\ open_trades'[s].stop_loss = trade.entry_price
                       /\ positions_file'[s] = open_trades'[s]
        /\ \A o \in asked :
               ~o.ok => /\ open_trades'[s] # NoTrade
                        /\ open_trades'[s].size = trade.size
                        /\ ~Taken(open_trades'[s], "1R")
                        /\ open_trades'[s].stop_loss = trade.stop_loss

Candidate(record) ==
    IF record.direction = "long"
    THEN GetHWM(record) - 2 * GetATR(record)
    ELSE GetHWM(record) + 2 * GetATR(record)

\* 50% to 95% of the entry price for a long, 105% to 200% for a short.
InBand(record, stop) ==
    IF record.direction = "long"
    THEN 50 * record.entry_price <= 100 * stop
         /\ 100 * stop <= 95 * record.entry_price
    ELSE 105 * record.entry_price <= 100 * stop
         /\ 100 * stop <= 200 * record.entry_price

Improves(record, stop, current) ==
    IF record.direction = "long" THEN stop > current ELSE stop < current

\* A position still held after a pass that ran its trailing step: the mode
\* was on before the pass or the pass realized 4R, and in neither case does
\* the scan of the levels move the stop.
Trailed(s) ==
    /\ open_trades[s] # NoTrade
    /\ open_trades'[s] # NoTrade
    /\ open_trades'[s].trailing_stop_active
    /\ open_trades[s].stop_loss # None
    /\ lastPrice'[s] # None
    /\ open_trades'[s] # NoTrade

TrailingStepSound(s) ==
    LET before == open_trades[s]
        after == open_trades'[s]
        accepted == /\ GetATR(after) > 0
                    /\ InBand(after, Candidate(after))
                    /\ Improves(after, Candidate(after), before.stop_loss)
    IN  after.stop_loss = IF accepted THEN Candidate(after)
                          ELSE before.stop_loss

\* C28: in trailing mode the candidate stop (high-water mark minus twice
\* the ATR for a long, plus for a short) replaces stop_loss only if it lies
\* inside the band relative to the entry price and strictly improves on the
\* current stop; in every other case the trailing step leaves stop_loss
\* unchanged.
C28_TrailingStopBandedAndImproving ==
    [][(\A s \in Symbols : Trailed(s) => TrailingStepSound(s))
          \/ ~CheckAndCloseTrades]_vars

\* A trailing stop that the step has set to its candidate.
C28_CandidateAccepted ==
    \E s \in Held :
        /\ open_trades[s].trailing_stop_active
        /\ lastPrice[s] # None
        /\ OrdersOf(lastOrders, "partial") = {}
        /\ open_trades[s].stop_loss = Candidate(open_trades[s])
        /\ InBand(open_trades[s], open_trades[s].stop_loss)

\* A pass in trailing mode whose candidate was outside the band.
C28_CandidateDiscarded ==
    \E s \in Held :
        /\ open_trades[s].trailing_stop_active
        /\ lastPrice[s] # None
        /\ OrdersOf(lastOrders, "partial") = {}
        /\ ~InBand(open_trades[s], Candidate(open_trades[s]))
        /\ open_trades[s].stop_loss # Candidate(open_trades[s])

\* The pass's accepted partial exit at 4R for the symbol.
FourthTargetRealized(orders, s) ==
    \E o \in OrdersOf(orders, "partial") :
        o.sym = s /\ o.level = "4R" /\ o.ok

TrailingOnlyAfterFourthTarget ==
    \A s \in Held :
        open_trades[s].trailing_stop_active => Taken(open_trades[s], "4R")

\* Over one step of a position that is held before and after it: the pass
\* that realizes 4R turns the flag on, nothing else does, and nothing turns
\* it off.
TrailingFlagStep ==
    \A s \in Symbols :
        (open_trades[s] # NoTrade /\ open_trades'[s] # NoTrade) =>
            /\ FourthTargetRealized(lastOrders', s)
                   => open_trades'[s].trailing_stop_active
            /\ (~open_trades[s].trailing_stop_active
                   /\ open_trades'[s].trailing_stop_active)
                   => FourthTargetRealized(lastOrders', s)
            /\ open_trades[s].trailing_stop_active
                   => open_trades'[s].trailing_stop_active

\* C29: trailing_stop_active is true only in states where the 4R level is
\* marked realized; it becomes true in the pass whose 4R partial exit
\* succeeds; and once true it is never set back to false while the position
\* remains open.
C29_TrailingFlagFollowsFourthTarget ==
    /\ []TrailingOnlyAfterFourthTarget
    /\ [][TrailingFlagStep]_vars

C29_TrailingSwitchedOn ==
    \E s \in Held :
        /\ FourthTargetRealized(lastOrders, s)
        /\ open_trades[s].trailing_stop_active
        /\ open_trades[s].profits_taken = [l \in LevelSet |-> TRUE]

\* The distance of the stop from the entry when the position was opened:
\* the record's own 1R target lies that far from the entry; a record with
\* no targets has only its present stop to go by.
InitialRisk(record) ==
    IF "1R" \in DOMAIN record.profit_levels
    THEN Abs(record.profit_levels["1R"] - record.entry_price)
    ELSE IF record.stop_loss # None
    THEN Abs(record.entry_price - record.stop_loss)
    ELSE 0

Gain(record, current_price) ==
    IF record.direction = "long" THEN current_price - record.entry_price
    ELSE record.entry_price - current_price

\* The four conditions of a reversal, for the call the step approved.
ReversalDue(record, call) ==
    /\ InitialRisk(record) > 0
           => 2 * Gain(record, call.current_price) < InitialRisk(record)
    /\ 100 * Gain(record, call.current_price) < 2 * record.entry_price
    /\ call.old_enough
    /\ ~(record.signal_type = "momentum" /\ call.signal_type # "momentum")

ReversalStep ==
    IF lastReversal'.approved
    THEN ReversalDue(open_trades[lastReversal'.symbol], lastReversal')
    ELSE /\ lastOrders' = << >>
         /\ open_trades' = open_trades
         /\ positions_file' = positions_file

\* C30: check_for_signal_reversal closes the position only when its
\* unrealized profit in units of the initial risk distance
\* |entry - initial stop| is below 0.5, its unrealized P&L is below 2%, it
\* has been open at least two hours and it is not a momentum position
\* reversed by a non-momentum signal; if any one fails, no order is
\* submitted and the record is unchanged.  (The claim as stated; the code
\* measures the profit against the present stop.)
C30_ReversalOnlyWhenUnprotected ==
    [][ReversalStep \/ ~CheckForSignalReversal]_vars

-----------------------------------------------------------------------------
(* The sizer on its own                                                    *)

SizerSymbols == {Flagship, "LTC-USDT-SWAP", "SOL-USDT-SWAP"}

\* Entry prices in hundredths: 50,000 and 60,000 dollars for the flagship,
\* 1, 50 and 100 dollars for the others.
SizerPrices(symbol) ==
    IF symbol = Flagship THEN {50000 * 100, 60000 * 100}
    ELSE {1 * 100, 50 * 100, EntryPrice}

\* Available margin in whole dollars.
SizerMargins ==
    {0, 5, 100, 250, AvailableMargin, 510, 1000, 5000, 8000, 10000, 60000}

\* get_stop_and_size called with candle data and the margin fetch answering.
GetStopAndSize ==
    \E symbol \in SizerSymbols, direction \in Directions,
       available_margin \in SizerMargins :
        \E entry_price \in SizerPrices(symbol) :
            /\ lastSizing' =
                   [sized |-> TRUE, symbol |-> symbol,
                    entry_price |-> entry_price,
                    available_margin |-> available_margin,
                    result |-> get_stop_and_size(symbol, entry_price,
                                   direction, CandleATR, 0, available_margin,
                                   None)]
            /\ Unchanged
            /\ Log(<< >>, FALSE)
            /\ lastEntry' = NoEntry
            /\ lastSync' = NoSync
            /\ lastCrash' = NoCrash
            /\ lastReversal' = NoReversal
            /\ UNCHANGED emergency_stop

InitSizer ==
    /\ InitCommon
    /\ positions_file = [s \in Symbols |-> NoTrade]
    /\ profit_taking = ConfiguredLevels
    /\ PAPER_TRADING = FALSE
    /\ TRADING_SYMBOLS = Symbols
    /\ max_open_trades = 5

NextSizer == GetStopAndSize

SpecSizer == InitSizer /\ [][NextSizer]_vars

-----------------------------------------------------------------------------
(* One pass over two open positions                                        *)

\* The record enter_trade leaves for an entry at EntryPrice.
entered_record(symbol, direction) ==
    position_data(direction, EntryPrice,
                  get_stop_and_size(symbol, EntryPrice, direction, CandleATR,
                                    0, AvailableMargin, FallbackEquity),
                  "traditional", FALSE)

\* Live trading of two symbols, both long and entered in the order SOL, LTC.
InitTwoOpen ==
    /\ open_trades = [s \in Symbols |-> entered_record(s, "long")]
    /\ positions_file = open_trades
    /\ trade_order = <<"SOL-USDT-SWAP", "LTC-USDT-SWAP">>
    /\ profit_taking \in {EmptyDict, ConfiguredLevels}
    /\ close_accepted = {}
    /\ lastOrders = << >>
    /\ lastPrice = NoPrices
    /\ raised = FALSE
    /\ emergency_stop = FALSE
    /\ lastEntry = NoEntry
    /\ lastSync = NoSync
    /\ lastCrash = NoCrash
    /\ lastReversal = NoReversal
    /\ lastSizing = NoSizing
    /\ PAPER_TRADING = FALSE
    /\ TRADING_SYMBOLS = Symbols
    /\ max_open_trades = 5

\* The tickers of these passes: none, the stop, the 1R and the 2R target.
NearPrices ==
    {None, EntryPrice - PriceStep, EntryPrice + PriceStep,
     EntryPrice + 2 * PriceStep}

\* check_and_close_trades at tickers near the entry.
CheckAndCloseTradesNear ==
    \E prices \in [Range(trade_order) -> NearPrices] :
        \E partial_ok \in Answers(AsksPartial(prices)),
           close_ok \in Answers(AsksClose(prices)) :
            check_and_close_trades(prices, partial_ok, close_ok)

NextTwoOpen == CheckAndCloseTradesNear

SpecTwoOpen == InitTwoOpen /\ [][NextTwoOpen]_vars

-----------------------------------------------------------------------------
(* The polling loop in either mode                                         *)

\* run_strategy_loop started in paper or in live trading with an empty
\* Store: entries of one symbol and staged-exit passes; in paper trading
\* the loop neither syncs nor migrates (lines 21-27 and 77-80).
InitEitherMode ==
    /\ InitCommon
    /\ positions_file = [s \in Symbols |-> NoTrade]
    /\ PAPER_TRADING \in BOOLEAN
    /\ TRADING_SYMBOLS = {"LTC-USDT-SWAP"}
    /\ max_open_trades = 5

NextEitherMode ==
    \/ EnterTrade
    \/ CheckAndCloseTradesNear

SpecEitherMode == InitEitherMode /\ [][NextEitherMode]_vars

-----------------------------------------------------------------------------
(* The polling loop while the market rises                                 *)

\* Tickers at or above the entry price: the entry, the four targets of a
\* long entered there, and the far price.
RisingPrices ==
    {EntryPrice + k * PriceStep : k \in 0 .. PriceSpan} \cup {FarPrice}

CheckAndCloseTradesRising ==
    \E prices \in [Range(trade_order) -> RisingPrices] :
        \E partial_ok \in Answers(AsksPartial(prices)),
           close_ok \in Answers(AsksClose(prices)) :
            check_and_close_trades(prices, partial_ok, close_ok)

NextRising ==
    \/ EnterTrade
    \/ CheckAndCloseTradesRising

\* run_strategy_loop is a `while True` that sleeps 15 minutes between
\* cycles (lines 35-106): the loop keeps taking its steps.
InitRising == Init /\ profit_taking = ConfiguredLevels

SpecRising == InitRising /\ [][NextRising]_vars /\ WF_vars(NextRising)

\* The place of a symbol in the order the pass goes through the Ledger.
PlaceOf(s) == Only({i \in 1..Len(trade_order) : trade_order[i] = s})

\* The symbol at which the pass's exception was raised: the one the pass's
\* last order was placed for.
Raiser(orders) == orders[Len(orders)].sym

\* After a pass that ended by an exception: no held symbol comes after the
\* raising one in the Ledger's order (each of the others was evaluated), and
\* each other symbol whose full close the exchange accepted in the pass is
\* gone from the Ledger and the Store.
OthersUnharmed ==
    raised' =>
        /\ lastOrders' # << >>
        /\ \A s \in Range(trade_order) :
               PlaceOf(s) <= PlaceOf(Raiser(lastOrders'))
        /\ \A s \in AcceptedCloses(lastOrders') \ {Raiser(lastOrders')} :
               open_trades'[s] = NoTrade /\ positions_file'[s] = NoTrade

\* C31: within one check_and_close_trades pass, a failure while evaluating
\* one symbol does not prevent the other open symbols from being evaluated
\* in that pass and leaves no other symbol's Ledger or Store record
\* inconsistent with the orders already submitted for it.  (The claim as
\* stated; the exception leaves the loop over the symbols.)
C31_FailureIsolatedToItsSymbol ==
    [][OthersUnharmed \/ ~CheckAndCloseTradesNear]_vars

\* margin * fraction * leverage / (price * 1), in 0.0001 contract, for a
\* symbol whose contract is one unit: the whole contracts and the rest.
RawSize(available_margin, entry_price) ==
    LET notional == (available_margin * margin_per_position_pct
                        * estimated_leverage) \div 100
        whole == (notional * 100) \div entry_price
        rest == (notional * 100) % entry_price
    IN  whole * 10000 + RoundHalfEven(rest * 10000, entry_price)

\* C32: for a symbol that is neither the flagship nor a memecoin, with
\* contract multiplier 1, get_stop_and_size returns available margin *
\* fraction * leverage / (entry price * contract multiplier) clamped to the
\* symbol's maximum contract count, before any lot rounding: 200 contracts
\* for margin 10,000, fraction 10%, leverage 10x and entry price 50.
C32_SizeFromMarginAllocation ==
    (lastSizing.sized /\ lastSizing.symbol # Flagship) =>
        /\ lastSizing.result.size =
               Min(RawSize(lastSizing.available_margin,
                           lastSizing.entry_price),
                   50000 * 10000)
        /\ (lastSizing.available_margin = 10000
              /\ lastSizing.entry_price = 50 * 100)
               => lastSizing.result.size = 200 * 10000

C32_TwoHundredContracts ==
    /\ lastSizing.sized
    /\ lastSizing.symbol = "LTC-USDT-SWAP"
    /\ lastSizing.available_margin = 10000
    /\ lastSizing.entry_price = 50 * 100
    /\ lastSizing.result.size = 200 * 10000

\* A raw size above the position limit, returned as the limit.
C32_ClampedToLimit ==
    /\ lastSizing.sized
    /\ lastSizing.symbol = "LTC-USDT-SWAP"
    /\ RawSize(lastSizing.available_margin, lastSizing.entry_price)
           > 50000 * 10000
    /\ lastSizing.result.size = 50000 * 10000

\* C33: every nonzero size get_stop_and_size returns is a whole multiple of
\* the symbol's lot size and at least one lot.  (The claim as stated; the
\* sizer returns round(size, 4) and leaves lot rounding to place_order.)
C33_SizeIsWholeLots ==
    (lastSizing.sized /\ lastSizing.result.size # 0) =>
        /\ lastSizing.result.size % LotSize(lastSizing.symbol) = 0
        /\ lastSizing.result.size >= LotSize(lastSizing.symbol)

\* What the code does establish: the returned size is the allocation's
\* size to 4 decimals, and only get_valid_lot_size turns it into lots.
C33_LotRoundingIsWholeLots ==
    lastSizing.sized =>
        LET lots == get_valid_lot_size(lastSizing.symbol,
                                       lastSizing.result.size)
        IN  lots % LotSize(lastSizing.symbol) = 0
                /\ lots >= LotSize(lastSizing.symbol)

\* C35: for the flagship symbol, every nonzero size get_stop_and_size
\* returns for an available margin and an entry price is accepted by
\* validate_trade_size under the same margin and price.  (The claim as
\* stated; the validator's notional leaves out the contract multiplier.)
C35_FlagshipSizePassesValidation ==
    (lastSizing.sized /\ lastSizing.symbol = Flagship
       /\ lastSizing.result.size # 0) =>
        validate_trade_size(Flagship, lastSizing.result.size,
                            lastSizing.entry_price,
                            lastSizing.available_margin)

\* No nonzero flagship size passes: the sizer commits 5% of the margin at
\* 0.01 coin per contract, the validator counts a whole coin per contract.
C35_FlagshipSizeAlwaysRejected ==
    (lastSizing.sized /\ lastSizing.symbol = Flagship
       /\ lastSizing.result.size # 0) =>
        ~validate_trade_size(Flagship, lastSizing.result.size,
                             lastSizing.entry_price,
                             lastSizing.available_margin)

\* An enter_trade call in paper trading for a symbol without a record, with
\* a price and candles and a permitting gate.
PaperEntry ==
    /\ PAPER_TRADING
    /\ lastEntry'.called
    /\ lastEntry'.sized
    /\ open_trades[lastEntry'.symbol] = NoTrade

\* C34: in paper trading, enter_trade called with an available price and
\* candles, a permitting Safety Gate and no existing record ends with a
\* Ledger record for the symbol flagged paper_trade, sized from the
\* configured baseline margin (80% of the starting equity), and with no
\* order submitted.  (The claim as stated; the sizer raises KeyError on
\* the simulated margin dict.)
C34_PaperEntryRecorded ==
    [][PaperEntry =>
         /\ lastOrders' = << >>
         /\ ~raised'
         /\ open_trades'[lastEntry'.symbol] # NoTrade
         /\ open_trades'[lastEntry'.symbol].paper_trade
         /\ open_trades'[lastEntry'.symbol].size =
                RawSize((starting_equity * 80) \div 100,
                        open_trades'[lastEntry'.symbol].entry_price)]_vars

\* What the code does: every such call ends by an exception, with no
\* record and no order.
C34_PaperEntryRaises ==
    [][PaperEntry =>
         /\ raised'
         /\ lastOrders' = << >>
         /\ open_trades'[lastEntry'.symbol] = NoTrade]_vars

\* The Ledger holds a record of symbol s before and after the step, and the
\* step is not an entry that opened s anew.
SamePosition(s) ==
    /\ open_trades[s] # NoTrade
    /\ open_trades'[s] # NoTrade
    /\ ~(lastEntry'.called /\ lastEntry'.symbol = s)

\* A partial exit of s succeeded in the step.
PartialExitSucceeded(s) ==
    \E o \in OrdersOf(lastOrders', "partial") : o.sym = s /\ o.ok

SizeBounded ==
    \A s \in Held :
        open_trades[s].original_size # None =>
            /\ 0 <= open_trades[s].size
            /\ open_trades[s].size <= open_trades[s].original_size

SizeStep ==
    \A s \in Symbols :
        SamePosition(s) =>
            /\ (open_trades[s].original_size # None) =>
                   open_trades'[s].original_size
                       = open_trades[s].original_size
            /\ open_trades'[s].size <= open_trades[s].size
            /\ (open_trades'[s].size < open_trades[s].size) =>
                   PartialExitSucceeded(s)

\* C36: for every open position, original_size never changes after entry
\* and size never increases: in every reachable state 0 <= size <=
\* original_size, and size strictly decreases only in a pass whose partial
\* exit succeeded.
C36_SizeOnlyShrinksByPartialExits ==
    []SizeBounded /\ [][SizeStep]_vars

\* A pass whose partial exit succeeded left the position smaller than it
\* was opened.
C36_SizeReducedByPartialExit ==
    \E s \in Held :
        /\ open_trades[s].original_size # None
        /\ 0 < open_trades[s].size
        /\ open_trades[s].size < open_trades[s].original_size
        /\ \E o \in OrdersOf(lastOrders, "partial") : o.sym = s /\ o.ok

\* The step is the first call of should_allow_trading after the Safety
\* Gate was constructed (enter_trade's call, from the initial state), and
\* the equity it would read is at or below the kill-switch threshold.
FirstGateCallInBreach ==
    /\ Init
    /\ lastEntry'.called
    /\ lastEntry'.equity # None
    /\ lastEntry'.equity * 100 <= starting_equity * equity_kill_switch_pct

\* C37: if the equity is already at or below the kill-switch threshold
\* when should_allow_trading is first called after the Safety Gate is
\* constructed, that first call sets emergency_stop and returns false, so
\* no entry is made before the breach is detected.  (The claim as stated;
\* the constructor stamps last_equity_check, so a first call within the
\* check interval reads no equity.)
C37_FirstCallDetectsBreach ==
    [][FirstGateCallInBreach =>
         /\ emergency_stop'
         /\ ~lastEntry'.allow
         /\ open_trades' = open_trades]_vars

\* What the code does establish: a first call more than the check interval
\* after construction detects the breach.
C37_DueFirstCallDetectsBreach ==
    [][(FirstGateCallInBreach /\ lastEntry'.due) =>
         /\ emergency_stop'
         /\ ~lastEntry'.allow
         /\ open_trades' = open_trades]_vars

\* The Ledger's long entered by enter_trade, in trailing mode with its four
\* targets realized.
TrailingLongs ==
    {s \in Held :
        /\ Entered(open_trades[s])
        /\ open_trades[s].direction = "long"
        /\ open_trades[s].trailing_stop_active
        /\ \A l \in LevelSet : open_trades[s].profits_taken[l]}

\* The stop when trailing mode was activated: the 4R branch leaves the
\* stop where the 3R branch put it.
StopAtActivation(record) ==
    RatchetStop(record, "3R", profit_taking).stop_loss

TrailingLong == TrailingLongs # {}

TrailingStopAboveActivation ==
    \E s \in TrailingLongs :
        open_trades[s].stop_loss > StopAtActivation(open_trades[s])

\* C38: for a long position that reached trailing mode through the
\* ordered 1R to 4R realizations, a favorable price path leads to a
\* trailing update that raises stop_loss above its value at activation;
\* the trailing stop is not permanently frozen.  (The claim as stated,
\* while the market stays at or above the entry; every candidate of such
\* a long lies above 95% of its entry and is discarded.)
C38_TrailingStopRises ==
    TrailingLong ~> TrailingStopAboveActivation

\* What the code does: on every price path the stop of an entered long in
\* trailing mode stays at its value at activation.
C38_TrailingStopFrozen ==
    \A s \in TrailingLongs :
        open_trades[s].stop_loss = StopAtActivation(open_trades[s])

\* An entered long in trailing mode whose ticker stands half again above
\* its entry.
C38_TrailingLongFarAboveEntry ==
    \E s \in TrailingLongs : lastPrice[s] = FarPrice

\* The live orders of one kind for symbol s that the exchange accepted in
\* the step.
AcceptedLive(s, kind) ==
    {o \in OrdersOf(lastOrders', kind) : o.sym = s /\ o.ok /\ o.live}

\* After an accepted opening order the Ledger's size is the size
\* submitted; an accepted partial exit takes the size submitted off it.
LedgerTracksSubmitted ==
    \A s \in Symbols :
        /\ \A o \in AcceptedLive(s, "open") :
               lastEntry'.called => open_trades'[s].size = SubmittedSize(o)
        /\ \A o \in AcceptedLive(s, "partial") :
               SamePosition(s) =>
                   open_trades'[s].size
                       = open_trades[s].size - SubmittedSize(o)

\* The same with the sizes the callers asked place_order for.
LedgerTracksRequested ==
    \A s \in Symbols :
        /\ \A o \in AcceptedLive(s, "open") :
               lastEntry'.called => open_trades'[s].size = o.size
        /\ \A o \in AcceptedLive(s, "partial") :
               SamePosition(s) =>
                   open_trades'[s].size = open_trades[s].size - o.size

\* C39: for a live position, the Ledger's size equals the size of the
\* opening order actually submitted minus the sum of the sizes of the
\* partial-exit orders actually submitted, after entry and after every
\* successful partial exit.  (The claim as stated, step by step; the
\* Ledger keeps the sizes asked for, the exchange gets whole lots.)
C39_LedgerMatchesSubmittedOrders ==
    [][LedgerTracksSubmitted]_vars

\* What the code does establish: the Ledger follows the requested sizes.
C39_LedgerMatchesRequestedOrders ==
    [][LedgerTracksRequested]_vars

\* The last step was a sync whose position fetch succeeded.
SyncedFromFetch == lastSync.synced /\ ~lastSync.failed

\* The symbols with a record in the Store that are neither in the Ledger
\* nor in the last sync's report.
Orphans ==
    {s \in Symbols : /\ positions_file[s] # NoTrade
                     /\ open_trades[s] = NoTrade
                     /\ s \notin Range(lastSync.report)}

\* C40: after a sync whose position fetch succeeded, the Store holds no
\* record for a symbol that is neither in the Ledger nor reported by the
\* exchange.  (The claim as stated; the sync removes from the Store only
\* the symbols it removes from the Ledger.)
C40_SyncLeavesNoOrphan ==
    SyncedFromFetch => Orphans = {}

\* The consequence the claim rules out, as a step: a sync restores from
\* the Store the record that the successful sync before it left there
\* for a symbol then neither held nor reported.
OrphanRestored ==
    /\ SyncedFromFetch
    /\ lastSync'.synced
    /\ \E s \in Orphans : /\ s \in lastSync'.added
                           /\ open_trades'[s] = positions_file[s]

C40_OrphanNeverRestored ==
    [][~OrphanRestored]_vars

====
